---- MODULE Spec2Model ----
(***************************************************************************)
(* SalahNow-CLI: the prayer-time resolution and caching pipeline.          *)
(*                                                                         *)
(*   salahnow_cli/prayer_api.py  fetch_prayer_bundle, the two provider     *)
(*                               adapters, the retry loop, the resolver    *)
(*   salahnow_cli/cache.py       the cache file and its three operations   *)
(*   salahnow_cli/location.py    the nearest-location searches             *)
(*   salahnow_cli/prayer_logic.py the prayer clock and the countdown       *)
(*   salahnow_cli/models.py      Location, PrayerTimes                     *)
(*   salahnow_cli/cli.py         the live countdown of next_command        *)
(*   salahnow_cli/notify.py      the loop of run_notify_daemon             *)
(*                                                                         *)
(* The specifications: Spec (calls of fetch_prayer_bundle, the clock and   *)
(* changes to the cache file between them), SpecStored (the same calls for *)
(* a location without a district id, begun with an entry in the file),     *)
(* SpecMidnight (the same calls with the clock running during a call),     *)
(* SpecResolve (resolve_prayer_source alone), SpecRetry (one upstream      *)
(* lookup, attempt by attempt), SpecCache (the cache operations called     *)
(* directly), SpecRace (set_cached_bundle in concurrent processes),        *)
(* SpecLive (the live countdown holding one bundle), SpecDay (one bundle    *)
(* read while the clock goes through a day), SpecWork (the calls under     *)
(* weak fairness of their steps), SpecDistrict (the calls with the         *)
(* location's district id changed between them), SpecNotify (the           *)
(* notification daemon), and one for each                                  *)
(* group of pure functions applied to arguments drawn in its initial       *)
(* state: SpecFormat (format_time_to_hhmm, _require_time_field),           *)
(* SpecCountdown (format_countdown), SpecClock (get_current_prayer_info),  *)
(* SpecNearest (the nearest-location searches), SpecDayMatch (the regional *)
(* lookups' choice of the day's entry).                                    *)
(*                                                                         *)
(* Conventions.  Python None is the string "None".  A canonical "HH:MM"    *)
(* string is the pair <<hours, minutes>>.  An ISO date string is the       *)
(* number of the calendar day it names (isoformat is injective and the     *)
(* code only compares date strings for equality).  An instant is a clock   *)
(* tick; DayLen ticks make a calendar day.  Latitudes and longitudes are   *)
(* integers in units of 1e-6 degree.                                       *)
(***************************************************************************)
EXTENDS Integers, Sequences, FiniteSets, TLC

\* ---------------------------------------------------------------- bounds
MaxTime == 4            \* the clock stops ticking here
MaxCalls == 2           \* calls of fetch_prayer_bundle in one behaviour
DayLen == 4             \* clock ticks per calendar day

None == "None"
NoneRec == [kind |-> "None"]   \* Python None where the other values are records
Missing == "<missing>"  \* a key that a JSON object does not have

\* ------------------------------------------------------- prayer_api.py:20-25
DIYANET_TIME_ZONE == "Europe/Istanbul"
TURKEY_COUNTRY_CODE == <<"T", "R">>
MAX_RETRIES == 2

Sources == {"diyanet", "mwl"}
PRAYER_NAMES == <<"Fajr", "Sunrise", "Dhuhr", "Asr", "Maghrib", "Isha">>

\* ------------------------------------------------------------- the clock
\* Offsets of the zones from the system's local zone, in ticks.  Any other
\* name is not a zone: ZoneInfo(name) raises for it.
LOCAL_ZONE == "<local>"
NEW_YORK == "America/New_York"
BAD_ZONE == "Not/AZone"
ValidZones == {DIYANET_TIME_ZONE, NEW_YORK}

ZoneOffset(z) ==
  CASE z = DIYANET_TIME_ZONE -> 1
    [] z = NEW_YORK -> -1
    [] OTHER -> 0

\* datetime.now(ZoneInfo(z)).date() at instant t; z = LOCAL_ZONE is datetime.now().date()
DateIn(z, t) == (t + ZoneOffset(z)) \div DayLen

\* Python truthiness of an Optional[str]
Truthy(s) == s # None /\ s # ""

\* --------------------------------------------------- Python str methods
Digits == <<"0", "1", "2", "3", "4", "5", "6", "7", "8", "9">>
IsDigit(c) == \E i \in DOMAIN Digits : Digits[i] = c
int_digit(c) == (CHOOSE i \in DOMAIN Digits : Digits[i] = c) - 1

\* str(n) for n >= 0
RECURSIVE str_int(_)
str_int(n) ==
  IF n < 10 THEN <<Digits[n + 1]>> ELSE Append(str_int(n \div 10), Digits[(n % 10) + 1])

\* f"{n:02}" for n >= 0: at least two digits
Format02(n) == IF n < 10 THEN <<"0">> \o str_int(n) ELSE str_int(n)

\* A country name or country code is a sequence of one-character strings.
Uppers == <<"A", "B", "C", "D", "E", "F", "G", "H", "I", "J", "K", "L", "M",
            "N", "O", "P", "Q", "R", "S", "T", "U", "V", "W", "X", "Y", "Z", "A~", "U:">>
Lowers == <<"a", "b", "c", "d", "e", "f", "g", "h", "i", "j", "k", "l", "m",
            "n", "o", "p", "q", "r", "s", "t", "u", "v", "w", "x", "y", "z", "a~", "u:">>

UpperChar(c) ==
  IF \E i \in 1..Len(Lowers) : Lowers[i] = c
  THEN Uppers[CHOOSE i \in 1..Len(Lowers) : Lowers[i] = c]
  ELSE c

LowerChar(c) ==
  IF \E i \in 1..Len(Uppers) : Uppers[i] = c
  THEN Lowers[CHOOSE i \in 1..Len(Uppers) : Uppers[i] = c]
  ELSE c

\* str.upper()
str_upper(s) == [i \in 1..Len(s) |-> UpperChar(s[i])]

\* str.lower()
str_lower(s) == [i \in 1..Len(s) |-> LowerChar(s[i])]

\* str.strip(): leading and trailing whitespace removed
RECURSIVE str_lstrip(_)
str_lstrip(s) == IF s # <<>> /\ Head(s) = " " THEN str_lstrip(Tail(s)) ELSE s

RECURSIVE str_rstrip(_)
str_rstrip(s) ==
  IF s # <<>> /\ s[Len(s)] = " " THEN str_rstrip(SubSeq(s, 1, Len(s) - 1)) ELSE s

str_strip(s) == str_rstrip(str_lstrip(s))

\* ------------------------------------------------------------ models.py
Location(city, country, countryCode, lat, lon, diyanetIlceId) ==
  [city |-> city, country |-> country, countryCode |-> countryCode,
   lat |-> lat, lon |-> lon, diyanetIlceId |-> diyanetIlceId]

\* Country codes and names of the model.  "A~" is the letter A-tilde, "a~"
\* its lower case, "1/4" the sign one-quarter: the name in the tests and on
\* line 88 is the seven letters T, A-tilde, one-quarter, r, k, i, y, e.
\* "u:" is the letter u-umlaut, "U:" its upper case: the country's name in
\* its own language is T, u-umlaut, r, k, i, y, e.
CC_TR == TURKEY_COUNTRY_CODE
CC_tr == <<"t", "r">>
CC_US == <<"U", "S">>
CC_XX == <<"X", "X">>
NameTuerkiye == <<"T", "A~", "1/4", "r", "k", "i", "y", "e">>
NameTurkiye == <<"T", "u", "r", "k", "i", "y", "e">>
NameNative == <<"T", "u:", "r", "k", "i", "y", "e">>
NameTURKIYEpadded == <<" ", "T", "U", "R", "K", "I", "Y", "E", " ">>
NameTurkey == <<"T", "u", "r", "k", "e", "y">>
NameUSA == <<"U", "S", "A">>

\* ---------------------------------------------------------- prayer_api.py
\* The two string literals of line 88.
NativeSpellings ==
  {<<"t", "A~", "1/4", "r", "k", "i", "y", "e">>, <<"t", "u", "r", "k", "i", "y", "e">>}

is_turkiye_location(location) ==
  IF str_upper(location.countryCode) = TURKEY_COUNTRY_CODE
  THEN TRUE
  ELSE str_lower(str_strip(location.country)) \in NativeSpellings

\* A faulty variant: the requested source is kept for every location.
resolve_prayer_source_keepRequested(location, source) == source

resolve_prayer_source(location, source) ==
  IF is_turkiye_location(location) THEN source ELSE "mwl"

\* ------------------------------------------------------------ location.py
\* The built-in table (data/locations.json): a sample with one district that
\* carries a district id, one that carries none, and one foreign city.  All
\* entries of the region lie on one meridian.
LocationsTable ==
  << Location("Istanbul", NameTuerkiye, CC_TR, 41008200, 32859700, "9541"),
     Location("Koy", NameTuerkiye, CC_TR, 37000000, 32859700, None),
     Location("New York", NameUSA, CC_US, 40712800, -74006000, None) >>

\* The table as the program reads it: the content of the data file
VARIABLE table

get_locations == table

Inf == -1   \* float("inf"): distances are >= 0, and the code compares with < only

Abs(x) == IF x < 0 THEN 0 - x ELSE x

\* haversine_distance for two points of one meridian: d_lon = 0, so
\* a = sin^2(d_lat/2) and c = |d_lat| (in radians): the distance is
\* radius_km * |d_lat|, here in units of radius_km * pi/180 * 1e-6.  The model
\* calls it for such points only.
haversine_distance(lat1, lon1, lat2, lon2) == Abs(lat2 - lat1)

\* The loop of find_nearest_location_by_country_code from table index i on,
\* with the loop's two locals.
RECURSIVE NearestScan(_, _, _, _, _, _)
NearestScan(i, lat, lon, country_code, nearest, min_distance) ==
  IF i > Len(get_locations) THEN nearest
  ELSE LET loc == get_locations[i]
           distance == haversine_distance(lat, lon, loc.lat, loc.lon)
       IN  IF loc.countryCode # country_code
           THEN NearestScan(i + 1, lat, lon, country_code, nearest, min_distance)
           ELSE IF min_distance = Inf \/ distance < min_distance
           THEN NearestScan(i + 1, lat, lon, country_code, loc, distance)
           ELSE NearestScan(i + 1, lat, lon, country_code, nearest, min_distance)

find_nearest_location_by_country_code(lat, lon, country_code) ==
  NearestScan(1, lat, lon, country_code, NoneRec, Inf)

\* The city that line 26 compares with, as the source file spells it
\* (A-umlaut, degree sign, "stanbul"); no city of a table is spelled so
DEFAULT_CITY == "A:o-stanbul"

RECURSIVE DefaultScan(_)
DefaultScan(i) ==
  IF i > Len(get_locations) THEN get_locations[1]
  ELSE IF get_locations[i].city = DEFAULT_CITY THEN get_locations[i]
  ELSE DefaultScan(i + 1)

get_default_location == DefaultScan(1)

\* The loop of find_nearest_location from table index i on.  The faulty
\* variant takes an entry that is as near as the nearest so far.
RECURSIVE NearestOfAll_lastWins(_, _, _, _, _)
NearestOfAll_lastWins(i, lat, lon, nearest, min_distance) ==
  IF i > Len(get_locations) THEN nearest
  ELSE LET loc == get_locations[i]
           distance == haversine_distance(lat, lon, loc.lat, loc.lon)
       IN  IF min_distance = Inf \/ distance <= min_distance
           THEN NearestOfAll_lastWins(i + 1, lat, lon, loc, distance)
           ELSE NearestOfAll_lastWins(i + 1, lat, lon, nearest, min_distance)

RECURSIVE NearestOfAll(_, _, _, _, _)
NearestOfAll(i, lat, lon, nearest, min_distance) ==
  IF i > Len(get_locations) THEN nearest
  ELSE LET loc == get_locations[i]
           distance == haversine_distance(lat, lon, loc.lat, loc.lon)
       IN  IF min_distance = Inf \/ distance < min_distance
           THEN NearestOfAll(i + 1, lat, lon, loc, distance)
           ELSE NearestOfAll(i + 1, lat, lon, nearest, min_distance)

find_nearest_location(lat, lon) ==
  NearestOfAll(1, lat, lon, get_default_location, Inf)

\* sorted(items, key=lambda item: item[0]): a stable sort, an item goes
\* behind every item whose key is not greater
RECURSIVE sorted(_)
sorted(items) ==
  IF items = <<>> THEN <<>>
  ELSE LET before == sorted(SubSeq(items, 1, Len(items) - 1))
           item == items[Len(items)]
           k == Cardinality({j \in DOMAIN before : before[j][1] <= item[1]})
       IN  SubSeq(before, 1, k) \o <<item>> \o SubSeq(before, k + 1, Len(before))

\* ranked[:limit]
SliceTo(seq, limit) ==
  IF limit >= 0
  THEN SubSeq(seq, 1, IF limit < Len(seq) THEN limit ELSE Len(seq))
  ELSE SubSeq(seq, 1, IF Len(seq) + limit > 0 THEN Len(seq) + limit ELSE 0)

get_nearest_locations(lat, lon, limit) ==
  LET ranked == sorted([i \in DOMAIN get_locations |->
                          <<haversine_distance(lat, lon, get_locations[i].lat,
                                               get_locations[i].lon),
                            get_locations[i]>>])
      cut == SliceTo(ranked, limit)
  IN  [i \in DOMAIN cut |-> cut[i][2]]

\* ---------------------------------------------------------- prayer_api.py
\* A faulty variant: a location without a district id gets the id of the
\* first table entry that carries one.
get_diyanet_ilce_id_anyDistrict(location) ==
  IF Truthy(location.diyanetIlceId) THEN location.diyanetIlceId
  ELSE LET withId == {i \in DOMAIN get_locations : Truthy(get_locations[i].diyanetIlceId)}
       IN  IF withId = {} THEN None
           ELSE get_locations[CHOOSE i \in withId : \A j \in withId : i <= j].diyanetIlceId

get_diyanet_ilce_id(location) ==
  IF Truthy(location.diyanetIlceId) THEN location.diyanetIlceId
  ELSE IF ~is_turkiye_location(location) THEN None
  ELSE LET nearest == find_nearest_location_by_country_code(
                        location.lat, location.lon, TURKEY_COUNTRY_CODE)
       IN  IF nearest # NoneRec THEN nearest.diyanetIlceId ELSE None

\* ---------------------------------------------------------------- cache.py
\* f"{x:.5f}": x rounded to five decimals (x in 1e-6 degree, result in 1e-5)
Round5(x) == (x + 5) \div 10

_cache_key(location, source) ==
  <<location.city, location.countryCode, Round5(location.lat), Round5(location.lon),
    source>>

\* The cache file (CACHE_PATH).  kind is
\*   "missing"    the path does not exist
\*   "unreadable" reading it raises OSError (a directory, no permission)
\*   "badutf8"    its bytes are not valid UTF-8
\*   "badjson"    text that is not JSON
\*   "notobject"  JSON whose top-level value is not an object
\*   "object"     a JSON object: data maps the keys present to their values
\* A JSON value is a record tagged by kind: "dict" (has = the keys present),
\* "number" for any value that is not an object.  dict.get of a key that is
\* not there is NoneRec.
EmptyStore == [k \in {} |-> NoneRec]
CacheFile(kind, data) == [kind |-> kind, data |-> data]
DictGet(data, key) == IF key \in DOMAIN data THEN data[key] ELSE NoneRec
DictSet(data, key, value) ==
  [k \in (DOMAIN data) \cup {key} |-> IF k = key THEN value ELSE data[k]]

PrayerNameSet == {PRAYER_NAMES[i] : i \in 1..Len(PRAYER_NAMES)}
EntryFields == {"times", "tomorrow_fajr", "time_zone", "date", "fetched_at"}

\* An operation's outcome: the exception type it raised (None: it returned)
\* and the value it returned.
Returned(v) == [exc |-> None, value |-> v]
Raised(e) == [exc |-> e, value |-> NoneRec]

\* A variant that catches every exception of the read.
_safe_read_cache_catchAll(f) ==
  IF f.kind = "object" THEN Returned(f.data) ELSE Returned(EmptyStore)

_safe_read_cache(f) ==
  IF f.kind = "missing" THEN Returned(EmptyStore)
  ELSE IF f.kind = "unreadable" THEN Returned(EmptyStore)
  ELSE IF f.kind = "badutf8" THEN Raised("UnicodeDecodeError")
  ELSE IF f.kind = "badjson" THEN Returned(EmptyStore)
  ELSE IF f.kind = "notobject" THEN Returned(EmptyStore)
  ELSE Returned(f.data)

\* A faulty variant: always the system's date.
_date_string_for_zone_alwaysLocal(time_zone, source, t) == DateIn(LOCAL_ZONE, t)

_date_string_for_zone(time_zone, source, t) ==
  IF Truthy(time_zone) /\ time_zone \in ValidZones THEN DateIn(time_zone, t)
  ELSE IF source = "diyanet" THEN DateIn(DIYANET_TIME_ZONE, t)
  ELSE DateIn(LOCAL_ZONE, t)

\* PrayerTimes: the record of the six time strings
PrayerTimes(Fajr, Sunrise, Dhuhr, Asr, Maghrib, Isha) ==
  [Fajr |-> Fajr, Sunrise |-> Sunrise, Dhuhr |-> Dhuhr, Asr |-> Asr,
   Maghrib |-> Maghrib, Isha |-> Isha]

PrayerTimes_to_dict(times) ==
  [kind |-> "dict", has |-> PrayerNameSet,
   Fajr |-> times.Fajr, Sunrise |-> times.Sunrise, Dhuhr |-> times.Dhuhr,
   Asr |-> times.Asr, Maghrib |-> times.Maghrib, Isha |-> times.Isha]

\* A stored time field is a JSON value: the string "HH:MM" is the pair
\* <<h, m>>, the JSON number n is <<n>>.  str() leaves a string as it is
\* and turns the number into the string of its digits, written <<n, Inf>>:
\* a string with no minutes.
JsonNumber(n) == <<n>>
str(value) == IF Len(value) = 2 THEN value ELSE <<value[1], Inf>>

\* PrayerTimes.from_dict: data["Fajr"] raises for a value that is no mapping
\* (TypeError) and for a key that is not there (KeyError); each value found
\* goes through str()
PrayerTimes_from_dict(data) ==
  IF data.kind # "dict" THEN Raised("TypeError")
  ELSE IF ~(PrayerNameSet \subseteq data.has) THEN Raised("KeyError")
  ELSE Returned(PrayerTimes(str(data.Fajr), str(data.Sunrise), str(data.Dhuhr),
                            str(data.Asr), str(data.Maghrib), str(data.Isha)))

CachedPrayerBundle(times, tomorrow_fajr, time_zone, date, fetched_at) ==
  [kind |-> "bundle", times |-> times, tomorrow_fajr |-> tomorrow_fajr,
   time_zone |-> time_zone, date |-> date, fetched_at |-> fetched_at]

\* A faulty variant: the recorded zone is dropped.
_parse_cached_entry_noZone(entry) ==
  IF entry.kind # "dict" THEN NoneRec
  ELSE IF ~({"times", "tomorrow_fajr", "date", "fetched_at"} \subseteq entry.has)
  THEN NoneRec
  ELSE IF PrayerTimes_from_dict(entry.times).exc # None THEN NoneRec
  ELSE CachedPrayerBundle(PrayerTimes_from_dict(entry.times).value,
                          str(entry.tomorrow_fajr), None, entry.date, entry.fetched_at)

_parse_cached_entry(entry) ==
  IF entry.kind # "dict" THEN NoneRec
  ELSE IF ~({"times", "tomorrow_fajr", "date", "fetched_at"} \subseteq entry.has)
  THEN NoneRec
  ELSE IF PrayerTimes_from_dict(entry.times).exc # None THEN NoneRec
  ELSE CachedPrayerBundle(
         PrayerTimes_from_dict(entry.times).value,
         str(entry.tomorrow_fajr),
         IF "time_zone" \in entry.has THEN entry.time_zone ELSE None,
         entry.date,
         entry.fetched_at)

\* A faulty variant: no date check.
get_fresh_cached_bundle_noDateCheck(f, location, source, t) ==
  IF _safe_read_cache(f).exc # None THEN Raised(_safe_read_cache(f).exc)
  ELSE Returned(_parse_cached_entry(
         DictGet(_safe_read_cache(f).value, _cache_key(location, source))))

\* A faulty variant: the stored date is compared with the system's date.
get_fresh_cached_bundle_localDate(f, location, source, t) ==
  LET hit == get_fresh_cached_bundle_noDateCheck(f, location, source, t) IN
  IF hit.exc = None /\ hit.value # NoneRec /\ hit.value.date # DateIn(LOCAL_ZONE, t)
  THEN Returned(NoneRec)
  ELSE hit

get_fresh_cached_bundle(f, location, source, t) ==
  LET read == _safe_read_cache(f) IN
  IF read.exc # None THEN Raised(read.exc)
  ELSE LET key == _cache_key(location, source)
           entry == _parse_cached_entry(DictGet(read.value, key))
       IN  IF entry = NoneRec THEN Returned(NoneRec)
           ELSE IF entry.date = _date_string_for_zone(entry.time_zone, source, t)
           THEN Returned(entry)
           ELSE Returned(NoneRec)

\* A faulty variant: the key of source "mwl" is read, whatever the source.
get_stale_cached_bundle_defaultKey(f, location, source) ==
  IF _safe_read_cache(f).exc # None THEN Raised(_safe_read_cache(f).exc)
  ELSE Returned(_parse_cached_entry(
         DictGet(_safe_read_cache(f).value, _cache_key(location, "mwl"))))

get_stale_cached_bundle(f, location, source) ==
  LET read == _safe_read_cache(f) IN
  IF read.exc # None THEN Raised(read.exc)
  ELSE Returned(_parse_cached_entry(
         DictGet(read.value, _cache_key(location, source))))

\* The JSON object set_cached_bundle stores under the key, at instant t
NewEntry(source, times, tomorrow_fajr, time_zone, t) ==
  [kind |-> "dict", has |-> EntryFields,
   times |-> PrayerTimes_to_dict(times),
   tomorrow_fajr |-> tomorrow_fajr,
   time_zone |-> time_zone,
   date |-> _date_string_for_zone(time_zone, source, t),
   fetched_at |-> t]

\* What _safe_write_cache can do: write the file ("ok"); raise OSError with
\* the file untouched ("fail": mkdir or open fails); raise OSError after the
\* file was truncated ("partial": the write fails part-way).
IoOutcomes == {"ok", "fail", "partial"}

\* A faulty variant: the file written holds the new entry alone.
set_cached_bundle_onlyKey(f, location, source, times, tomorrow_fajr, time_zone, t, io) ==
  LET read == _safe_read_cache(f) IN
  IF read.exc # None THEN [exc |-> read.exc, value |-> f]
  ELSE IF io = "fail" THEN [exc |-> "OSError", value |-> f]
  ELSE IF io = "partial"
  THEN [exc |-> "OSError", value |-> CacheFile("badjson", EmptyStore)]
  ELSE [exc |-> None,
        value |-> CacheFile("object",
                    DictSet(EmptyStore, _cache_key(location, source),
                            NewEntry(source, times, tomorrow_fajr, time_zone, t)))]

\* set_cached_bundle at instant t under the write outcome io.  The value
\* returned is the file afterwards.
set_cached_bundle(f, location, source, times, tomorrow_fajr, time_zone, t, io) ==
  LET read == _safe_read_cache(f) IN
  IF read.exc # None THEN [exc |-> read.exc, value |-> f]
  ELSE IF io = "fail" THEN [exc |-> "OSError", value |-> f]
  ELSE IF io = "partial"
  THEN [exc |-> "OSError", value |-> CacheFile("badjson", EmptyStore)]
  ELSE [exc |-> None,
        value |-> CacheFile("object",
                    DictSet(read.value, _cache_key(location, source),
                            NewEntry(source, times, tomorrow_fajr, time_zone, t)))]

\* ------------------------------------------------ the upstream providers
\* What the servers know: the six times of calendar day d.
TimesOfDay(d) ==
  PrayerTimes(<<6, 22 + d>>, <<7, 48 + d>>, <<13, 23>>, <<16, 19>>, <<18, 40 - d>>,
              <<20, 8 - d>>)

\* A raw JSON time field: a string whose first H:MM match reads hhmm ("str"),
\* a string with no such match ("nomatch"), a value that is no string or a
\* key that is not there ("nostr").
RawTime(kind, hhmm) == [kind |-> kind, hhmm |-> hhmm]

\* What the dawn field of a response can be: the day's time, a string whose
\* first H:MM match is no time of day ("29:75"; in the answers of the
\* fallback provider only, to bound the model), and the two above
FieldQualities == {"str", "range", "nomatch", "nostr"}
OutOfRange == <<29, 75>>

\* The raw fields of day d; quality is that of the dawn field (Imsak / Fajr).
RawDay(d, quality) ==
  [Fajr |-> IF quality = "range" THEN RawTime("str", OutOfRange)
            ELSE RawTime(quality, TimesOfDay(d).Fajr),
   Sunrise |-> RawTime("str", TimesOfDay(d).Sunrise),
   Dhuhr |-> RawTime("str", TimesOfDay(d).Dhuhr),
   Asr |-> RawTime("str", TimesOfDay(d).Asr),
   Maghrib |-> RawTime("str", TimesOfDay(d).Maghrib),
   Isha |-> RawTime("str", TimesOfDay(d).Isha)]

\* One outcome of one HTTP attempt: a response with a status, or httpx.HTTPError
AttemptOutcomes == {"2xx", "4xx", "5xx", "transport"}
StatusOf(o) == CASE o = "2xx" -> 200 [] o = "4xx" -> 404 [] OTHER -> 503

\* The regional provider's body: "notjson", "notlist" (JSON, not a list), or
\* a list of per-day entries; an entry is a dict with its date and raw fields,
\* or a JSON value that is no object.
\* The calendar: day 0 is 30 November 2026, so that the days of a behaviour
\* lie on both sides of the end of a month.  <<year, month, day>> of day d.
Calendar(d) == IF d <= 0 THEN <<2026, 11, 30 + d>> ELSE <<2026, 12, d>>

\* MiladiTarihKisa as the provider writes it: "30.11.2026"
DateText(d) ==
  Format02(Calendar(d)[3]) \o <<".">> \o Format02(Calendar(d)[2]) \o <<".">>
    \o str_int(Calendar(d)[1])

DiyanetEntry(d, quality) ==
  [kind |-> "dict", date |-> DateText(d), raw |-> RawDay(d, quality)]
DiyanetBody(shape, entries) == [shape |-> shape, entries |-> entries]
DiyanetBodies(d) ==
  { DiyanetBody("notjson", <<>>), DiyanetBody("notlist", <<>>),
    DiyanetBody("list", <<>>),
    DiyanetBody("list", << [kind |-> "number", date |-> <<>>, raw |-> RawDay(0, "str")] >>) }
  \cup { DiyanetBody("list", <<DiyanetEntry(d, q), DiyanetEntry(d + 1, q)>>) :
           q \in FieldQualities \ {"range"} }
  \cup { DiyanetBody("list", <<DiyanetEntry(d - 1, "str"), DiyanetEntry(d, "str")>>) }

\* The fallback provider's body: "notjson", "notdict" (JSON, not an object),
\* "datanull" (data is null), "timingsnotdict", or "ok": data.timings holds
\* the raw fields; meta is "null" (data.meta is null) or "dict", and then
\* timezone is data.meta.timezone (None when the key is not there).
AladhanBody(shape, raw, meta, timezone) ==
  [shape |-> shape, raw |-> raw, meta |-> meta, timezone |-> timezone]
AladhanBodies(d, zone) ==
  { AladhanBody(sh, RawDay(d, "str"), "dict", zone) :
      sh \in {"notjson", "notdict", "datanull", "timingsnotdict"} }
  \cup { AladhanBody("ok", RawDay(d, q), "dict", zone) : q \in FieldQualities }
  \cup { AladhanBody("ok", RawDay(d, "str"), "dict", z) : z \in {None, BAD_ZONE} }
  \cup { AladhanBody("ok", RawDay(d, "str"), "null", None) }

\* The zone the fallback provider computes a location's day in
ZoneOfLocation(location) ==
  IF location.lon < 0 THEN NEW_YORK ELSE DIYANET_TIME_ZONE

\* ---------------------------------------------------------- prayer_api.py
\* An exception: its type and its message (a text and the field it names).
\* NoError: nothing was raised.
Error(exc, text, key) == [exc |-> exc, msg |-> <<text, key>>]
PrayerApiError(text) == Error("PrayerApiError", text, "")
NoError == Error(None, "", "")

\* _require_time_field: the error raised (NoError: none) ...
_require_time_field_error(raw, key) ==
  IF raw.kind = "nostr" THEN Error("PrayerApiError", "Missing time field", key)
  ELSE IF raw.kind = "nomatch" THEN Error("PrayerApiError", "Invalid time format for", key)
  ELSE NoError

\* ... and the value returned
_require_time_field(raw, key) == raw.hhmm

\* The first error that building PrayerTimes from the six raw fields raises
RECURSIVE FirstFieldError(_, _, _)
FirstFieldError(raw, keys, i) ==
  IF i > Len(PRAYER_NAMES) THEN NoError
  ELSE IF _require_time_field_error(raw[PRAYER_NAMES[i]], keys[i]) # NoError
  THEN _require_time_field_error(raw[PRAYER_NAMES[i]], keys[i])
  ELSE FirstFieldError(raw, keys, i + 1)

RequiredTimes(raw) ==
  PrayerTimes(_require_time_field(raw.Fajr, "Fajr"),
              _require_time_field(raw.Sunrise, "Sunrise"),
              _require_time_field(raw.Dhuhr, "Dhuhr"),
              _require_time_field(raw.Asr, "Asr"),
              _require_time_field(raw.Maghrib, "Maghrib"),
              _require_time_field(raw.Isha, "Isha"))

DIYANET_KEYS == <<"Imsak", "Gunes", "Ogle", "Ikindi", "Aksam", "Yatsi">>

ALADHAN_KEYS == PRAYER_NAMES

\* One decision of the loop of _get_with_retries, on attempt number `attempt`
\* (0, 1, 2) whose outcome is o: "retry" (sleep, continue), "return" (the
\* response goes to the caller), "raise" (PrayerApiError(error_message))
\* A faulty variant: a 4xx response is retried like a 5xx one.
_get_with_retries_retry4xx(attempt, o) ==
  IF o # "2xx" /\ attempt < MAX_RETRIES THEN "retry"
  ELSE IF o = "transport" THEN "raise" ELSE "return"

_get_with_retries(attempt, o) ==
  IF o = "transport"
  THEN (IF attempt < MAX_RETRIES THEN "retry" ELSE "raise")
  ELSE IF StatusOf(o) >= 500 /\ attempt < MAX_RETRIES THEN "retry"
  ELSE "return"

\* The for loop of _get_with_retries from attempt number `attempt` on, when
\* the attempts' outcomes are outs[0], outs[1], outs[2]: how it ends ("return"
\* or "raise"), the outcome of its last attempt and the requests it issued.
\* A loop that runs out of attempts reaches the raise of line 81.
\* A faulty variant: one request more than the attempts of the loop
RECURSIVE RunRetries_oneMore(_, _)
RunRetries_oneMore(outs, attempt) ==
  LET decision == _get_with_retries(attempt, outs[attempt]) IN
  IF decision = "retry" /\ attempt < MAX_RETRIES
  THEN RunRetries_oneMore(outs, attempt + 1)
  ELSE [decision |-> IF decision = "retry" THEN "raise" ELSE decision,
        o |-> outs[attempt], n |-> attempt + 2]

RECURSIVE RunRetries(_, _)
RunRetries(outs, attempt) ==
  LET decision == _get_with_retries(attempt, outs[attempt]) IN
  IF decision = "retry" /\ attempt < MAX_RETRIES
  THEN RunRetries(outs, attempt + 1)
  ELSE [decision |-> IF decision = "retry" THEN "raise" ELSE decision,
        o |-> outs[attempt], n |-> attempt + 1]

\* Every way one _get_with_retries can go, over all outcomes of its attempts
OutcomeRuns == [0..MAX_RETRIES -> AttemptOutcomes]
RetryRuns == {RunRetries(outs, 0) : outs \in OutcomeRuns}

\* The bodies that matter to a run: a run that does not end with a 2xx
\* response never reads the body
BodiesFor(run, bodies) ==
  IF run.decision = "return" /\ StatusOf(run.o) < 400 THEN bodies
  ELSE {CHOOSE b \in bodies : TRUE}

\* What a lookup gives its caller: the error raised (NoError: none) and the
\* values returned
Fetched(err, times, tomorrow_fajr, time_zone) ==
  [err |-> err, times |-> times, tomorrow_fajr |-> tomorrow_fajr,
   time_zone |-> time_zone]
NoTimes == PrayerTimes(<<0, 0>>, <<0, 0>>, <<0, 0>>, <<0, 0>>, <<0, 0>>, <<0, 0>>)
NoTime == <<0, 0>>
Failed(err) == Fetched(err, NoTimes, NoTime, None)

\* int() of a run of digits
RECURSIVE int_run(_)
int_run(group) ==
  IF group = <<>> THEN 0
  ELSE 10 * int_run(SubSeq(group, 1, Len(group) - 1)) + int_digit(group[Len(group)])

\* re.findall(r"\d+", value) from position i on, run being the digits read
\* of the run that position i continues: the maximal runs of digits
RECURSIVE re_findall(_, _, _)
re_findall(value, i, run) ==
  LET ended == IF run = <<>> THEN <<>> ELSE <<run>> IN
  IF i > Len(value) THEN ended
  ELSE IF IsDigit(value[i]) THEN re_findall(value, i + 1, Append(run, value[i]))
  ELSE ended \o re_findall(value, i + 1, <<>>)

\* _parse_diyanet_date_parts: <<year, month, day>>, or <<>> for None
_parse_diyanet_date_parts(value) ==
  LET matches == re_findall(value, 1, <<>>) IN
  IF Len(matches) < 3 THEN <<>>
  ELSE LET day == int_run(matches[1])
           month == int_run(matches[2])
           year == int_run(matches[3])
       IN  IF day = 0 \/ month = 0 \/ year = 0 THEN <<>>
           ELSE <<year, month, day>>

\* _get_timezone_date_parts of the instant moment
_get_timezone_date_parts(moment, time_zone) == Calendar(DateIn(time_zone, moment))

\* A faulty variant: the entry of the target day, or else the list's first.
RECURSIVE _find_diyanet_prayer_times_orFirst(_, _, _)
_find_diyanet_prayer_times_orFirst(data, target_date, i) ==
  IF i > Len(data)
  THEN IF data # <<>> /\ data[1].kind = "dict"
       THEN [exc |-> None, found |-> TRUE, entry |-> data[1]]
       ELSE [exc |-> None, found |-> FALSE, entry |-> DiyanetEntry(0, "str")]
  ELSE IF data[i].kind # "dict"
  THEN [exc |-> "AttributeError", found |-> FALSE, entry |-> DiyanetEntry(0, "str")]
  ELSE IF _parse_diyanet_date_parts(data[i].date)
            = _get_timezone_date_parts(target_date, DIYANET_TIME_ZONE)
  THEN [exc |-> None, found |-> TRUE, entry |-> data[i]]
  ELSE _find_diyanet_prayer_times_orFirst(data, target_date, i + 1)

\* _find_diyanet_prayer_times from list index i on: the first entry whose
\* date is that of target_date in Istanbul (found), none (found = FALSE), or
\* AttributeError at an entry that is no object.  An entry without the date
\* key has the date "".
RECURSIVE _find_diyanet_prayer_times(_, _, _)
_find_diyanet_prayer_times(data, target_date, i) ==
  IF i > Len(data) THEN [exc |-> None, found |-> FALSE, entry |-> DiyanetEntry(0, "str")]
  ELSE IF data[i].kind # "dict"
  THEN [exc |-> "AttributeError", found |-> FALSE, entry |-> DiyanetEntry(0, "str")]
  ELSE IF _parse_diyanet_date_parts(data[i].date)
            = _get_timezone_date_parts(target_date, DIYANET_TIME_ZONE)
  THEN [exc |-> None, found |-> TRUE, entry |-> data[i]]
  ELSE _find_diyanet_prayer_times(data, target_date, i + 1)

\* _fetch_from_diyanet after _get_with_retries decided `decision` on outcome o
_fetch_from_diyanet(decision, o, body) ==
  IF decision = "raise" THEN PrayerApiError("Failed to fetch prayer times from Diyanet")
  ELSE IF StatusOf(o) >= 400
  THEN PrayerApiError("Failed to fetch prayer times from Diyanet")
  ELSE IF body.shape = "notjson" THEN PrayerApiError("Invalid response from Diyanet")
  ELSE IF body.shape # "list" THEN PrayerApiError("Unexpected Diyanet response")
  ELSE NoError

\* _fetch_prayer_times_from_diyanet; t is the instant datetime.now is read
_fetch_prayer_times_from_diyanet(decision, o, body, t) ==
  LET err == _fetch_from_diyanet(decision, o, body)
      hit == _find_diyanet_prayer_times(body.entries, t, 1)
  IN  IF err # NoError THEN Failed(err)
      ELSE IF hit.exc # None THEN Failed(Error(hit.exc, "", ""))
      ELSE IF ~hit.found THEN Failed(PrayerApiError("Could not find today's prayer times"))
      ELSE IF FirstFieldError(hit.entry.raw, DIYANET_KEYS, 1) # NoError
      THEN Failed(FirstFieldError(hit.entry.raw, DIYANET_KEYS, 1))
      ELSE Fetched(NoError, RequiredTimes(hit.entry.raw), NoTime, None)

\* _fetch_tomorrow_fajr_from_diyanet
_fetch_tomorrow_fajr_from_diyanet(decision, o, body, t) ==
  LET err == _fetch_from_diyanet(decision, o, body)
      hit == _find_diyanet_prayer_times(body.entries, t + DayLen, 1)
  IN  IF err # NoError THEN Failed(err)
      ELSE IF hit.exc # None THEN Failed(Error(hit.exc, "", ""))
      ELSE IF ~hit.found
      THEN Failed(PrayerApiError("Could not find tomorrow's prayer times"))
      ELSE IF _require_time_field_error(hit.entry.raw.Fajr, "Imsak") # NoError
      THEN Failed(_require_time_field_error(hit.entry.raw.Fajr, "Imsak"))
      ELSE Fetched(NoError, NoTimes, _require_time_field(hit.entry.raw.Fajr, "Imsak"), None)

\* The part of both fallback lookups from the response to data.timings
AladhanTimingsError(decision, o, body, message) ==
  IF decision = "raise" THEN PrayerApiError(message)
  ELSE IF StatusOf(o) >= 400 THEN PrayerApiError(message)
  ELSE IF body.shape = "notjson" THEN PrayerApiError("Invalid response from AlAdhan")
  ELSE IF body.shape \in {"notdict", "datanull"} THEN Error("AttributeError", "", "")
  ELSE IF body.shape = "timingsnotdict"
  THEN PrayerApiError("Unexpected response format from AlAdhan")
  ELSE NoError

\* _fetch_prayer_times_from_aladhan
_fetch_prayer_times_from_aladhan(decision, o, body) ==
  LET err == AladhanTimingsError(decision, o, body, "Failed to fetch prayer times") IN
  IF err # NoError THEN Failed(err)
  ELSE IF FirstFieldError(body.raw, ALADHAN_KEYS, 1) # NoError
  THEN Failed(FirstFieldError(body.raw, ALADHAN_KEYS, 1))
  ELSE IF body.meta = "null" THEN Failed(Error("AttributeError", "", ""))
  ELSE Fetched(NoError, RequiredTimes(body.raw), NoTime, body.timezone)

\* _fetch_tomorrow_fajr_from_aladhan
_fetch_tomorrow_fajr_from_aladhan(decision, o, body) ==
  LET err == AladhanTimingsError(decision, o, body,
                                 "Failed to fetch tomorrow's prayer times") IN
  IF err # NoError THEN Failed(err)
  ELSE IF _require_time_field_error(body.raw.Fajr, "Fajr") # NoError
  THEN Failed(_require_time_field_error(body.raw.Fajr, "Fajr"))
  ELSE Fetched(NoError, NoTimes, _require_time_field(body.raw.Fajr, "Fajr"), None)

\* ------------------------------------------------------------- the state
VARIABLES
  now,            \* the clock: the current instant
  file,           \* the cache file
  calls,          \* calls of fetch_prayer_bundle begun
  pc,             \* where the running fetch_prayer_bundle call stands
  loc, source,    \* its arguments
  resolved,       \* its local resolved_source
  requests,       \* HTTP requests the call has issued
  times, tomorrow_fajr, time_zone,   \* its locals after the lookups
  err,            \* the PrayerApiError being handled
  result,         \* what the call gave its caller
  trace,          \* the steps the call has taken
  keys,           \* the cache keys the call has read or written
  op,             \* the cache operation a direct caller made last, its outcome
  lastSet,        \* per source, what set_cached_bundle last stored under its key
  lookups,        \* the upstream lookups the call has made, in order
  inp, out,       \* a function under study: its arguments, its outcome
  procs           \* processes inside set_cached_bundle: position and locals

vars == <<now, file, calls, pc, loc, source, resolved, requests, times,
          tomorrow_fajr, time_zone, err, result, trace, keys, op, lastSet,
          lookups, table, inp, out, procs>>

\* The locations calls are made for
LocIstanbul == Location("Istanbul", NameTuerkiye, CC_TR, 41008200, 32859700, "9541")
LocAnkara == Location("Ankara", NameTurkiye, CC_tr, 39933400, 32859700, None)
LocKoy == Location("Koy", NameTURKIYEpadded, CC_XX, 37000100, 32859700, None)
LocNewYork == Location("New York", NameUSA, CC_US, 40712800, -74006000, None)
Locations == {LocIstanbul, LocAnkara, LocKoy, LocNewYork}

\* PrayerFetchResult, or the exception that left fetch_prayer_bundle
Result(kind, t, fajr, tz, requested, res, error) ==
  [kind |-> kind, times |-> t, tomorrow_fajr |-> fajr, time_zone |-> tz,
   requested_source |-> requested, resolved_source |-> res, error |-> error]
NoResult == Result("none", NoTimes, NoTime, None, None, None, NoError)
PrayerFetchResult(t, fajr, tz, requested, res) ==
  Result("return", t, fajr, tz, requested, res, NoError)
Raise(error) == Result("raise", NoTimes, NoTime, None, None, None, error)

\* A direct caller's cache operation: its name, its source argument, the
\* exception it raised (None: it returned) and the value it returned
Op(name, src, exc, value) == [name |-> name, source |-> src, exc |-> exc, value |-> value]
NoOp == Op("none", None, None, NoneRec)
NoSets == [s \in Sources |-> NoneRec]

\* A behaviour's calls are all for one location, in any order of sources.
Init ==
  /\ now = 0
  /\ file = CacheFile("missing", EmptyStore)
  /\ calls = 0
  /\ pc = "idle"
  /\ loc \in Locations
  /\ source = "diyanet" /\ resolved = "diyanet"
  /\ requests = 0
  /\ times = NoTimes /\ tomorrow_fajr = NoTime /\ time_zone = None
  /\ err = NoError /\ result = NoResult /\ trace = <<>> /\ keys = {}
  /\ op = NoOp /\ lastSet = NoSets
  /\ lookups = <<>> /\ table = LocationsTable
  /\ inp = NoneRec /\ out = NoneRec /\ procs = NoneRec

\* ------------------------------------------------------- the environment
\* The clock advances from one call to the next.
Tick ==
  /\ now < MaxTime
  /\ pc = "idle"
  /\ calls < MaxCalls
  /\ now' = now + 1
  /\ UNCHANGED <<file, calls, pc, loc, source, resolved, requests, times,
                 tomorrow_fajr, time_zone, err, result, trace, keys,
                 op, lastSet>>
  /\ UNCHANGED <<lookups, table, inp, out, procs>>

\* Something other than this program changes the cache file, between calls:
\* the file is replaced by one that is no store, or one stored value is
\* replaced by a value that is no well-formed entry: a JSON value that is no
\* object ("number"), an object without its date ("nodate"), one whose times
\* are no object ("timesnotdict"), one whose times lack Fajr ("nofajr"),
\* one whose Fajr is the number 7 ("fajrnumber"), one whose tomorrow_fajr is
\* the number 7 ("tomorrownumber").
BrokenKinds == {"badutf8"}
Damages == {"nodate"}
Damage(how) ==
  LET entry == NewEntry("mwl", NoTimes, NoTime, None, 0) IN
  IF how = "number" THEN [kind |-> "number"]
  ELSE IF how = "nodate" THEN [entry EXCEPT !.has = @ \ {"date"}]
  ELSE IF how = "timesnotdict" THEN [entry EXCEPT !.times = [kind |-> "number"]]
  ELSE IF how = "fajrnumber" THEN [entry EXCEPT !.times.Fajr = JsonNumber(7)]
  ELSE IF how = "tomorrownumber" THEN [entry EXCEPT !.tomorrow_fajr = JsonNumber(7)]
  ELSE [entry EXCEPT !.times.has = @ \ {"Fajr"}]

EnvFile ==
  /\ pc = "idle"
  /\ calls < MaxCalls
  /\ \/ \E k \in BrokenKinds : file' = CacheFile(k, EmptyStore)
     \/ /\ file.kind = "object"
        /\ \E key \in DOMAIN file.data, how \in Damages :
             file' = CacheFile("object",
                               DictSet(file.data, key, Damage(how)))
  /\ file' # file
  /\ UNCHANGED <<now, calls, pc, loc, source, resolved, requests, times,
                 tomorrow_fajr, time_zone, err, result, trace, keys,
                 op, lastSet>>
  /\ UNCHANGED <<lookups, table, inp, out, procs>>

\* ------------------------------------------- fetch_prayer_bundle, by step
\* Lines 264-273: resolved_source is computed, the fresh lookup is made, and
\* on a hit the call returns.
StartCall ==
  /\ pc = "idle"
  /\ calls < MaxCalls
  /\ calls' = calls + 1
  /\ \E s \in Sources :
       LET res == resolve_prayer_source(loc, s)
           got == get_fresh_cached_bundle(file, loc, res, now)
       IN  /\ source' = s
           /\ resolved' = res
           /\ keys' = {_cache_key(loc, res)}
           /\ IF got.exc # None
              THEN /\ result' = Raise(Error(got.exc, "", ""))
                   /\ trace' = <<"CheckFresh">>
                   /\ pc' = "done"
              ELSE IF got.value # NoneRec
              THEN /\ result' = PrayerFetchResult(got.value.times,
                                                  got.value.tomorrow_fajr,
                                                  got.value.time_zone, s, res)
                   /\ trace' = <<"CheckFresh", "FreshHit">>
                   /\ pc' = "done"
              ELSE /\ result' = NoResult
                   /\ trace' = <<"CheckFresh", "Miss">>
                   /\ pc' = "tryFetch"
  /\ requests' = 0
  /\ times' = NoTimes /\ tomorrow_fajr' = NoTime /\ time_zone' = None
  /\ err' = NoError
  /\ UNCHANGED <<now, file, loc,
                 op, lastSet>>
  /\ lookups' = <<>>
  /\ UNCHANGED <<table, inp, out, procs>>

\* Lines 276, 298-299: the adapters of the regional provider serve the
\* resolved source "diyanet", those of the fallback provider any other.
Provider_alwaysAladhan(res) == "aladhan"   \* a faulty variant

Provider(res) == IF res = "diyanet" THEN "diyanet" ELSE "aladhan"

\* One lookup made: the provider asked and the day asked for
LookupMade(provider, day) == [provider |-> provider, day |-> day]

\* The bodies the provider can answer a lookup with; offset is 0 for today's
\* lookup and a day for tomorrow's (lines 199, 235-236: the fallback lookup
\* sends its instant, and the provider answers for that day).
BodiesNow(offset) ==
  IF Provider(resolved) = "diyanet"
  THEN DiyanetBodies(DateIn(DIYANET_TIME_ZONE, now))
  ELSE AladhanBodies(DateIn(ZoneOfLocation(loc), now + offset), ZoneOfLocation(loc))

\* A fetch in which a failed lookup goes on to the cache write
LookupFailed_persist(error) ==
  /\ trace' = Append(trace, "Failure")
  /\ err' = error
  /\ result' = result
  /\ pc' = "persist"

\* A lookup failed: a PrayerApiError goes to the except clause of line 314,
\* any other exception leaves the call.
LookupFailed(error) ==
  /\ trace' = Append(trace, "Failure")
  /\ IF error.exc = "PrayerApiError"
     THEN /\ err' = error
          /\ result' = result
          /\ pc' = "checkStale"
     ELSE /\ err' = err
          /\ result' = Raise(error)
          /\ pc' = "done"

\* Lines 275-281, 298: the try block is entered; on the regional path the
\* district id is resolved, and a location without one fails here; then the
\* lookup of today's times: its HTTP attempts and the parsing of the answer.
LookupToday ==
  /\ pc = "tryFetch"
  /\ IF resolved = "diyanet" /\ ~Truthy(get_diyanet_ilce_id(loc))
     THEN /\ err' = PrayerApiError("Failed to resolve Diyanet location")
          /\ trace' = trace \o <<"FetchUpstream", "Failure">>
          /\ pc' = "checkStale"
          /\ UNCHANGED <<requests, times, time_zone, result, lookups>>
     ELSE \E run \in RetryRuns : \E body \in BodiesFor(run, BodiesNow(0)) :
            LET got == IF Provider(resolved) = "diyanet"
                       THEN _fetch_prayer_times_from_diyanet(run.decision, run.o, body, now)
                       ELSE _fetch_prayer_times_from_aladhan(run.decision, run.o, body)
            IN  /\ requests' = requests + run.n
                /\ lookups' = Append(lookups, LookupMade(Provider(resolved), "today"))
                /\ IF got.err = NoError
                   THEN /\ times' = got.times
                        /\ time_zone' = got.time_zone
                        /\ trace' = Append(trace, "FetchUpstream")
                        /\ pc' = "fetchTomorrow"
                        /\ UNCHANGED <<err, result>>
                   ELSE /\ trace' = trace \o <<"FetchUpstream", "Failure">>
                        /\ IF got.err.exc = "PrayerApiError"
                           THEN /\ err' = got.err
                                /\ result' = result
                                /\ pc' = "checkStale"
                           ELSE /\ err' = err
                                /\ result' = Raise(got.err)
                                /\ pc' = "done"
                        /\ UNCHANGED <<times, time_zone>>
  /\ UNCHANGED <<now, file, calls, loc, source, resolved, tomorrow_fajr,
                 keys,
                 op, lastSet>>
  /\ UNCHANGED <<table, inp, out, procs>>

\* Lines 282, 299: the lookup of tomorrow's Fajr.
LookupTomorrow ==
  /\ pc = "fetchTomorrow"
  /\ \E run \in RetryRuns : \E body \in BodiesFor(run, BodiesNow(DayLen)) :
       LET got == IF Provider(resolved) = "diyanet"
                  THEN _fetch_tomorrow_fajr_from_diyanet(run.decision, run.o, body, now)
                  ELSE _fetch_tomorrow_fajr_from_aladhan(run.decision, run.o, body)
       IN  /\ requests' = requests + run.n
           /\ lookups' = Append(lookups, LookupMade(Provider(resolved), "tomorrow"))
           /\ IF got.err = NoError
              THEN /\ tomorrow_fajr' = got.tomorrow_fajr
                   /\ pc' = "persist"
                   /\ UNCHANGED <<err, result, trace>>
              ELSE /\ LookupFailed(got.err)
                   /\ UNCHANGED tomorrow_fajr
  /\ UNCHANGED <<now, file, calls, loc, source, resolved, times, time_zone,
                 keys,
                 op, lastSet>>
  /\ UNCHANGED <<table, inp, out, procs>>

\* The zone the call persists and returns: the fixed one on the regional
\* path (lines 288, 293), the response's on the fallback path (305, 310)
BundleZone_response == time_zone   \* a faulty variant: the local on both paths

BundleZone == IF resolved = "diyanet" THEN DIYANET_TIME_ZONE ELSE time_zone

\* Lines 283-296, 300-313: set_cached_bundle, then the return.  An OSError or
\* a UnicodeDecodeError out of set_cached_bundle is no PrayerApiError: it
\* leaves the call.
Persist ==
  /\ pc = "persist"
  /\ \E io \in IoOutcomes :
       LET wrote == set_cached_bundle(file, loc, resolved, times, tomorrow_fajr,
                                      BundleZone, now, io)
       IN  /\ file' = wrote.value
           /\ keys' = keys \cup {_cache_key(loc, resolved)}
           /\ IF wrote.exc = None
              THEN /\ result' = PrayerFetchResult(times, tomorrow_fajr, BundleZone,
                                                  source, resolved)
                   /\ trace' = Append(trace, "PersistAndReturn")
              ELSE /\ result' = Raise(Error(wrote.exc, "", ""))
                   /\ trace' = Append(trace, "PersistFailed")
  /\ pc' = "done"
  /\ UNCHANGED <<now, calls, loc, source, resolved, requests, times,
                 tomorrow_fajr, time_zone, err,
                 op, lastSet>>
  /\ UNCHANGED <<lookups, table, inp, out, procs>>

\* Lines 314-324: the stale lookup, the return on a hit, the re-raise.
StaleLookup ==
  /\ pc = "checkStale"
  /\ LET got == get_stale_cached_bundle(file, loc, resolved) IN
       /\ keys' = keys \cup {_cache_key(loc, resolved)}
       /\ IF got.exc # None
          THEN /\ result' = Raise(Error(got.exc, "", ""))
               /\ trace' = Append(trace, "CheckStale")
          ELSE IF got.value # NoneRec
          THEN /\ result' = PrayerFetchResult(got.value.times, got.value.tomorrow_fajr,
                                              got.value.time_zone, source, resolved)
               /\ trace' = trace \o <<"CheckStale", "StaleHit">>
          ELSE /\ result' = Raise(err)
               /\ trace' = trace \o <<"CheckStale", "StaleMiss">>
  /\ pc' = "done"
  /\ UNCHANGED <<now, file, calls, loc, source, resolved, requests, times,
                 tomorrow_fajr, time_zone, err,
                 op, lastSet>>
  /\ UNCHANGED <<lookups, table, inp, out, procs>>

\* The call is over: its locals are gone, its caller has the result.
Return ==
  /\ pc = "done"
  /\ pc' = "idle"
  /\ source' = "diyanet" /\ resolved' = "diyanet"
  /\ requests' = 0
  /\ times' = NoTimes /\ tomorrow_fajr' = NoTime /\ time_zone' = None
  /\ err' = NoError /\ result' = NoResult /\ trace' = <<>> /\ keys' = {}
  /\ UNCHANGED <<now, file, calls, loc,
                 op, lastSet>>
  /\ lookups' = <<>>
  /\ UNCHANGED <<table, inp, out, procs>>

Next ==
  \/ Tick
  \/ EnvFile
  \/ StartCall
  \/ LookupToday
  \/ LookupTomorrow
  \/ Persist
  \/ StaleLookup
  \/ Return

Spec == Init /\ [][Next]_vars

\* ------------------------------------- calls that find an entry of old
\* The calls of a location for which no district id is found, begun with a
\* cache file that already holds an entry under one of the location's keys,
\* written a day before (by a run that read another table, or by hand).
StoredBefore(location, s) ==
  CacheFile("object",
            DictSet(EmptyStore, _cache_key(location, s),
                    NewEntry(s, TimesOfDay(0 - 1), TimesOfDay(0).Fajr,
                             DIYANET_TIME_ZONE, 0 - DayLen)))

InitStored ==
  /\ now = 0
  /\ file \in {StoredBefore(LocKoy, s) : s \in Sources}
  /\ calls = 0
  /\ pc = "idle"
  /\ loc = LocKoy
  /\ source = "diyanet" /\ resolved = "diyanet"
  /\ requests = 0
  /\ times = NoTimes /\ tomorrow_fajr = NoTime /\ time_zone = None
  /\ err = NoError /\ result = NoResult /\ trace = <<>> /\ keys = {}
  /\ op = NoOp /\ lastSet = NoSets
  /\ lookups = <<>> /\ table = LocationsTable
  /\ inp = NoneRec /\ out = NoneRec /\ procs = NoneRec

SpecStored == InitStored /\ [][Next]_vars

\* ------------------------------------------- calls while the clock runs
\* The two lookups and the cache write each read the clock for themselves
\* (prayer_api.py lines 164, 182, 199, 235; cache.py lines 54-59, 108), and
\* the clock runs on between them.
InitMidnight ==
  /\ now = 0
  /\ file = CacheFile("missing", EmptyStore)
  /\ calls = 0
  /\ pc = "idle"
  /\ loc = LocIstanbul
  /\ source = "diyanet" /\ resolved = "diyanet"
  /\ requests = 0
  /\ times = NoTimes /\ tomorrow_fajr = NoTime /\ time_zone = None
  /\ err = NoError /\ result = NoResult /\ trace = <<>> /\ keys = {}
  /\ op = NoOp /\ lastSet = NoSets
  /\ lookups = <<>> /\ table = LocationsTable
  /\ inp = NoneRec /\ out = NoneRec /\ procs = NoneRec

TickInCall ==
  /\ now < MaxTime
  /\ pc \in {"fetchTomorrow", "persist"}
  /\ now' = now + 1
  /\ UNCHANGED <<file, calls, pc, loc, source, resolved, requests, times,
                 tomorrow_fajr, time_zone, err, result, trace, keys,
                 op, lastSet>>
  /\ UNCHANGED <<lookups, table, inp, out, procs>>

NextMidnight ==
  \/ Next
  \/ TickInCall

SpecMidnight == InitMidnight /\ [][NextMidnight]_vars


\* ------------------------------------------- resolve_prayer_source alone
\* The function is applied to a location of any country code and country
\* name, for either requested source.
ResolveCodes == {CC_TR, CC_tr, <<"T", "r">>, CC_US, CC_XX, <<>>}
ResolveNames ==
  {NameTuerkiye, NameTurkiye, NameNative, NameTURKIYEpadded, NameTurkey, NameUSA, <<>>}

InitResolve ==
  /\ now = 0
  /\ file = CacheFile("missing", EmptyStore)
  /\ calls = 0
  /\ pc = "resolve"
  /\ loc \in {Location("Anywhere", n, c, 0, 0, None) :
                n \in ResolveNames, c \in ResolveCodes}
  /\ source \in Sources
  /\ resolved = "diyanet"
  /\ requests = 0
  /\ times = NoTimes /\ tomorrow_fajr = NoTime /\ time_zone = None
  /\ err = NoError /\ result = NoResult /\ trace = <<>> /\ keys = {}
  /\ op = NoOp /\ lastSet = NoSets
  /\ lookups = <<>> /\ table = LocationsTable
  /\ inp = NoneRec /\ out = NoneRec /\ procs = NoneRec

Resolve ==
  /\ pc = "resolve"
  /\ resolved' = resolve_prayer_source(loc, source)
  /\ pc' = "resolved"
  /\ UNCHANGED <<now, file, calls, loc, source, requests, times, tomorrow_fajr,
                 time_zone, err, result, trace, keys, op, lastSet>>
  /\ UNCHANGED <<lookups, table, inp, out, procs>>

NextResolve == Resolve

SpecResolve == InitResolve /\ [][NextResolve]_vars

\* ------------------------------------------- one upstream lookup, by attempt
\* Today's lookup of the provider of `resolved`, one HTTP attempt at a time:
\* trace is the outcomes of the attempts made, requests their number (the
\* loop variable `attempt` of the next one).
Lookup(decision, o, body) ==
  IF resolved = "diyanet"
  THEN _fetch_prayer_times_from_diyanet(decision, o, body, now)
  ELSE _fetch_prayer_times_from_aladhan(decision, o, body)

InitRetry ==
  /\ now = 0
  /\ file = CacheFile("missing", EmptyStore)
  /\ calls = 0
  /\ pc = "attempt"
  /\ loc \in {LocIstanbul, LocNewYork}
  /\ source = "diyanet"
  /\ resolved = resolve_prayer_source(loc, source)
  /\ requests = 0
  /\ times = NoTimes /\ tomorrow_fajr = NoTime /\ time_zone = None
  /\ err = NoError /\ result = NoResult /\ trace = <<>> /\ keys = {}
  /\ op = NoOp /\ lastSet = NoSets
  /\ lookups = <<>> /\ table = LocationsTable
  /\ inp = NoneRec /\ out = NoneRec /\ procs = NoneRec

\* Lines 62-81: one pass of the for loop.
Attempt ==
  /\ pc = "attempt"
  /\ \E o \in AttemptOutcomes :
       LET decision == _get_with_retries(requests, o) IN
       /\ requests' = requests + 1
       /\ trace' = Append(trace, o)
       /\ pc' = CASE decision = "retry" -> "attempt"
                  [] decision = "return" -> "response"
                  [] OTHER -> "failed"
       /\ err' = IF decision = "raise"
                 THEN Lookup("raise", o, CHOOSE b \in BodiesNow(0) : TRUE).err
                 ELSE err
  /\ UNCHANGED <<now, file, calls, loc, source, resolved, times, tomorrow_fajr,
                 time_zone, result, keys, op, lastSet>>
  /\ UNCHANGED <<lookups, table, inp, out, procs>>

\* The adapter has the response: the status check and the parsing.
ReadResponse ==
  /\ pc = "response"
  /\ \E body \in BodiesNow(0) :
       LET got == Lookup("return", trace[Len(trace)], body) IN
       /\ err' = got.err
       /\ times' = got.times
       /\ time_zone' = got.time_zone
       /\ pc' = IF got.err = NoError THEN "fetched" ELSE "failed"
  /\ UNCHANGED <<now, file, calls, loc, source, resolved, requests,
                 tomorrow_fajr, result, trace, keys, op, lastSet>>
  /\ UNCHANGED <<lookups, table, inp, out, procs>>

NextRetry ==
  \/ Attempt
  \/ ReadResponse

SpecRetry == InitRetry /\ [][NextRetry]_vars

\* --------------------------------------------- the cache operations alone
\* A direct caller of cache.py: set_cached_bundle with any zone argument,
\* the two reads, the clock, and damage to the stored values.
CacheZones == {None, "", DIYANET_TIME_ZONE, NEW_YORK, BAD_ZONE}
FileKinds == {"missing", "unreadable", "badutf8", "badjson", "notobject"}
EntryDamages == {"number", "nodate", "timesnotdict", "nofajr", "fajrnumber", "tomorrownumber"}

Written(t, fajr, tz, at) ==
  [kind |-> "written", times |-> t, tomorrow_fajr |-> fajr, time_zone |-> tz,
   at |-> at]

InitCache ==
  /\ now = 0
  /\ file \in {CacheFile(k, EmptyStore) : k \in FileKinds}
  /\ calls = 0
  /\ pc = "idle"
  /\ loc \in {LocIstanbul, LocNewYork}
  /\ source = "diyanet" /\ resolved = "diyanet"
  /\ requests = 0
  /\ times = NoTimes /\ tomorrow_fajr = NoTime /\ time_zone = None
  /\ err = NoError /\ result = NoResult /\ trace = <<>> /\ keys = {}
  /\ op = NoOp /\ lastSet = NoSets
  /\ lookups = <<>> /\ table = LocationsTable
  /\ inp = NoneRec /\ out = NoneRec /\ procs = NoneRec

CacheTick ==
  /\ now < MaxTime
  /\ now' = now + 1
  /\ op' = NoOp
  /\ UNCHANGED <<file, calls, pc, loc, source, resolved, requests, times,
                 tomorrow_fajr, time_zone, err, result, trace, keys, lastSet>>
  /\ UNCHANGED <<lookups, table, inp, out, procs>>

CacheSet ==
  /\ calls < MaxCalls
  /\ calls' = calls + 1
  /\ \E s \in Sources, tz \in CacheZones, io \in IoOutcomes :
       LET d == DateIn(LOCAL_ZONE, now)
           wrote == set_cached_bundle(file, loc, s, TimesOfDay(d),
                                      TimesOfDay(d + 1).Fajr, tz, now, io)
       IN  /\ file' = wrote.value
           /\ op' = Op("set", s, wrote.exc, NoneRec)
           /\ lastSet' =
                IF wrote.exc = None
                THEN [lastSet EXCEPT
                        ![s] = Written(TimesOfDay(d), TimesOfDay(d + 1).Fajr, tz, now)]
                ELSE IF wrote.value = file THEN lastSet
                ELSE NoSets
  /\ UNCHANGED <<now, pc, loc, source, resolved, requests, times,
                 tomorrow_fajr, time_zone, err, result, trace, keys>>
  /\ UNCHANGED <<lookups, table, inp, out, procs>>

CacheGetFresh ==
  /\ \E s \in Sources :
       LET got == get_fresh_cached_bundle(file, loc, s, now) IN
       op' = Op("get_fresh", s, got.exc, got.value)
  /\ UNCHANGED <<now, file, calls, pc, loc, source, resolved, requests, times,
                 tomorrow_fajr, time_zone, err, result, trace, keys, lastSet>>
  /\ UNCHANGED <<lookups, table, inp, out, procs>>

CacheGetStale ==
  /\ \E s \in Sources :
       LET got == get_stale_cached_bundle(file, loc, s) IN
       op' = Op("get_stale", s, got.exc, got.value)
  /\ UNCHANGED <<now, file, calls, pc, loc, source, resolved, requests, times,
                 tomorrow_fajr, time_zone, err, result, trace, keys, lastSet>>
  /\ UNCHANGED <<lookups, table, inp, out, procs>>

\* Something other than this program replaces one stored value by a value
\* that is no well-formed entry.
CacheDamage ==
  /\ file.kind = "object"
  /\ \E s \in Sources, how \in EntryDamages :
       /\ _cache_key(loc, s) \in DOMAIN file.data
       /\ file' = CacheFile("object",
                    DictSet(file.data, _cache_key(loc, s), Damage(how)))
       /\ lastSet' = [lastSet EXCEPT ![s] = NoneRec]
  /\ file' # file
  /\ op' = NoOp
  /\ UNCHANGED <<now, calls, pc, loc, source, resolved, requests, times,
                 tomorrow_fajr, time_zone, err, result, trace, keys>>
  /\ UNCHANGED <<lookups, table, inp, out, procs>>

NextCache ==
  \/ CacheTick
  \/ CacheSet
  \/ CacheGetFresh
  \/ CacheGetStale
  \/ CacheDamage

SpecCache == InitCache /\ [][NextCache]_vars

\* ------------------------------------------------ the functions on their own
\* The variables of fetch_prayer_bundle and of the cache, while a function
\* that touches none of them is applied
bundleVars ==
  <<now, file, calls, pc, loc, source, resolved, requests, times,
    tomorrow_fajr, time_zone, err, result, trace, keys, op, lastSet, lookups>>

BundleAtRest ==
  /\ now = 0
  /\ file = CacheFile("missing", EmptyStore)
  /\ calls = 0
  /\ pc = "idle"
  /\ loc = LocIstanbul
  /\ source = "diyanet" /\ resolved = "diyanet"
  /\ requests = 0
  /\ times = NoTimes /\ tomorrow_fajr = NoTime /\ time_zone = None
  /\ err = NoError /\ result = NoResult /\ trace = <<>> /\ keys = {}
  /\ op = NoOp /\ lastSet = NoSets
  /\ lookups = <<>>

\* ------------------------------- format_time_to_hhmm, _require_time_field
\* A string is a sequence of characters.
MaxStr == 5

\* int() of a group of one or two digits
int(group) ==
  IF Len(group) = 1 THEN int_digit(group[1])
  ELSE 10 * int_digit(group[1]) + int_digit(group[2])

\* (\d{1,2}):(\d{2}) tried at position i: two digits for the hour first, one
\* digit if that fails; the two groups, or NoneRec
MatchAt(value, i) ==
  LET at(k) == IF i + k <= Len(value) THEN value[i + k] ELSE "" IN
  IF IsDigit(at(0)) /\ IsDigit(at(1)) /\ at(2) = ":" /\ IsDigit(at(3)) /\ IsDigit(at(4))
  THEN [kind |-> "match", hours |-> <<at(0), at(1)>>, minutes |-> <<at(3), at(4)>>]
  ELSE IF IsDigit(at(0)) /\ at(1) = ":" /\ IsDigit(at(2)) /\ IsDigit(at(3))
  THEN [kind |-> "match", hours |-> <<at(0)>>, minutes |-> <<at(2), at(3)>>]
  ELSE NoneRec

\* re.search: the match at the leftmost position that has one
RECURSIVE re_search(_, _)
re_search(value, i) ==
  IF i > Len(value) THEN NoneRec
  ELSE IF MatchAt(value, i) # NoneRec THEN MatchAt(value, i)
  ELSE re_search(value, i + 1)

format_time_to_hhmm(value) ==
  LET match == re_search(value, 1) IN
  IF match = NoneRec THEN value
  ELSE Format02(int(match.hours)) \o <<":">> \o Format02(int(match.minutes))

\* re.fullmatch(r"\d{2}:\d{2}", hhmm)
re_fullmatch(hhmm) ==
  /\ Len(hhmm) = 5
  /\ IsDigit(hhmm[1]) /\ IsDigit(hhmm[2]) /\ hhmm[3] = ":"
  /\ IsDigit(hhmm[4]) /\ IsDigit(hhmm[5])

\* A payload value as _require_time_field meets it: no string (or no such
\* key), or a string; and the raw field it amounts to
Value(kind, chars) == [kind |-> kind, chars |-> chars]
RawOf(value) ==
  IF value.kind # "str" THEN RawTime("nostr", NoTime)
  ELSE LET hhmm == format_time_to_hhmm(value.chars) IN
       IF re_fullmatch(hhmm)
       THEN RawTime("str", <<int(SubSeq(hhmm, 1, 2)), int(SubSeq(hhmm, 4, 5))>>)
       ELSE RawTime("nomatch", NoTime)

\* The strings the functions are applied to: every string of up to MaxStr
\* characters over FormatChars, and some longer ones
FormatChars == {"0", "2", "7", ":", "x"}
FormatSamples ==
  { <<"5", ":", "0", "7", " ", "(", "+", "0", "3", ")">>,
    <<"9", "9", ":", "9", "9", " ", "5", ":", "0", "7">>,
    <<"2", "0", ":", "0", "8", ":", "0", "0">> }
FormatStrings ==
  UNION {[1..n -> FormatChars] : n \in 0..MaxStr} \cup FormatSamples
FormatKeys == {"Fajr", "Imsak"}

\* The outcome of format_time_to_hhmm(raw) and of _require_time_field(payload, key)
Normalized(hhmm, error, returned) ==
  [kind |-> "normalized", hhmm |-> hhmm, err |-> error, returned |-> returned]

InitFormat ==
  /\ BundleAtRest
  /\ table = LocationsTable /\ procs = NoneRec
  /\ inp \in {[value |-> Value("str", v), key |-> k] : v \in FormatStrings, k \in FormatKeys}
           \cup {[value |-> Value("nostr", <<>>), key |-> k] : k \in FormatKeys}
  /\ out = NoneRec

Normalize ==
  /\ out = NoneRec
  /\ out' = Normalized(IF inp.value.kind = "str"
                       THEN format_time_to_hhmm(inp.value.chars) ELSE <<>>,
                       _require_time_field_error(RawOf(inp.value), inp.key),
                       _require_time_field(RawOf(inp.value), inp.key))
  /\ UNCHANGED <<bundleVars, table, procs, inp>>

NextFormat == Normalize

SpecFormat == InitFormat /\ [][NextFormat]_vars

\* --------------------------------------------------------- format_countdown
\* A faulty variant: the minutes are not reduced by the hours.
format_countdown_allMinutes(ms) ==
  IF ms <= 0 THEN <<"0", "0", ":", "0", "0", ":", "0", "0">>
  ELSE LET total_seconds == ms \div 1000
           hours == total_seconds \div 3600
           minutes == total_seconds \div 60
           seconds == total_seconds % 60
       IN  Format02(hours) \o <<":">> \o Format02(minutes) \o <<":">> \o Format02(seconds)

format_countdown(ms) ==
  IF ms <= 0 THEN <<"0", "0", ":", "0", "0", ":", "0", "0">>
  ELSE LET total_seconds == ms \div 1000
           hours == total_seconds \div 3600
           minutes == (total_seconds % 3600) \div 60
           seconds == total_seconds % 60
       IN  Format02(hours) \o <<":">> \o Format02(minutes) \o <<":">> \o Format02(seconds)

\* The arguments: whole seconds around the turns of the minute, the hour, the
\* day and the hundredth hour, with and without a fraction of a second, and
\* the same below zero
MaxHours == 100
CountdownSeconds ==
  {h * 3600 + m * 60 + sec : h \in {0, 1, 23, 24, MaxHours - 1, MaxHours},
                             m \in {0, 1, 59}, sec \in {0, 1, 59}}
CountdownArgs ==
  LET above == {sec * 1000 + r : sec \in CountdownSeconds, r \in {0, 999}}
  IN  above \cup {0 - ms : ms \in above}

Countdown(text) == [kind |-> "countdown", text |-> text]

InitCountdown ==
  /\ BundleAtRest
  /\ table = LocationsTable /\ procs = NoneRec
  /\ inp \in {[ms |-> ms] : ms \in CountdownArgs}
  /\ out = NoneRec

FormatCountdown ==
  /\ out = NoneRec
  /\ out' = Countdown(format_countdown(inp.ms))
  /\ UNCHANGED <<bundleVars, table, procs, inp>>

NextCountdown == FormatCountdown

SpecCountdown == InitCountdown /\ [][NextCountdown]_vars

\* ------------------------------------------------------- prayer_logic.py
\* A datetime is a count of milliseconds of wall-clock time in its zone, day
\* 0 beginning at 0; a timedelta is a difference of two.  A time string is
\* its pair of hours and minutes; the optional tomorrow_fajr argument is
\* None, or a string that may be empty.
DayMs == 24 * 60 * 60 * 1000
Str(hhmm) == [kind |-> "str", hhmm |-> hhmm]

\* A faulty variant: the time of day is placed on the day after base_date.
time_string_to_datetime_nextDay(time_str, base_date) ==
  (base_date - (base_date % DayMs)) + DayMs + (time_str[1] * 60 + time_str[2]) * 60 * 1000

\* base_date.replace(hour=hours, minute=minutes, second=0, microsecond=0)
time_string_to_datetime(time_str, base_date) ==
  (base_date - (base_date % DayMs)) + (time_str[1] * 60 + time_str[2]) * 60 * 1000

PrayerTimePoint(name, time, timestamp) ==
  [name |-> name, time |-> time, timestamp |-> timestamp]

get_prayer_times_array(prayer_times, base_date) ==
  [i \in DOMAIN PRAYER_NAMES |->
     PrayerTimePoint(PRAYER_NAMES[i], prayer_times[PRAYER_NAMES[i]],
                     time_string_to_datetime(prayer_times[PRAYER_NAMES[i]], base_date))]

\* int(time_until_next.total_seconds() * 1000).  total_seconds() is a float
\* and so is the product; for a difference of a whole number of
\* milliseconds the product can lie just below that number (1.001 * 1000 is
\* 1000.9999999999999), and int() then gives one less.  FloatShort lists the
\* differences for which it does, among those of the instants and times of
\* day of ClockNows, ClockTimes and ClockFajrs below, today's and tomorrow's.
FloatShort == {1001, 66299999, 132780001, 132781001}
total_ms(delta) == IF delta \in FloatShort THEN delta - 1 ELSE delta

\* The for loop of lines 62-77 from index i down: the first index whose
\* timestamp now has reached, 0 if there is none
RECURSIVE ReachedIndex_strict(_, _, _)
ReachedIndex_strict(prayers, t, i) ==   \* a faulty variant: > for >=
  IF i = 0 THEN 0
  ELSE IF t > prayers[i].timestamp THEN i
  ELSE ReachedIndex_strict(prayers, t, i - 1)

RECURSIVE ReachedIndex(_, _, _)
ReachedIndex(prayers, t, i) ==
  IF i = 0 THEN 0
  ELSE IF t >= prayers[i].timestamp THEN i
  ELSE ReachedIndex(prayers, t, i - 1)

CurrentPrayerInfo(current_prayer, next_prayer, next_prayer_time, time_until_next_ms, is_after_isha) ==
  [kind |-> "info", current_prayer |-> current_prayer, next_prayer |-> next_prayer,
   next_prayer_time |-> next_prayer_time, time_until_next_ms |-> time_until_next_ms,
   is_after_isha |-> is_after_isha]

Max(a, b) == IF a >= b THEN a ELSE b

\* get_current_prayer_info, t being what get_time_zone_now(time_zone) returns
get_current_prayer_info(prayer_times, tomorrow_fajr_arg, t) ==
  LET prayers == get_prayer_times_array(prayer_times, t)
      i == ReachedIndex(prayers, t, Len(prayers))
      tomorrow == t + DayMs
      next_prayer_time ==
        IF tomorrow_fajr_arg.kind = "str" /\ tomorrow_fajr_arg.hhmm # <<>>
        THEN tomorrow_fajr_arg.hhmm ELSE prayer_times.Fajr
  IN  IF i = 0
      THEN CurrentPrayerInfo("Isha", "Fajr", prayer_times.Fajr,
                             Max(0, total_ms(prayers[1].timestamp - t)), FALSE)
      ELSE IF i < Len(prayers)
      THEN CurrentPrayerInfo(prayers[i].name, prayers[i + 1].name, prayers[i + 1].time,
                             Max(0, total_ms(prayers[i + 1].timestamp - t)), FALSE)
      ELSE CurrentPrayerInfo(prayers[i].name, "Fajr", next_prayer_time,
                             Max(0, total_ms(time_string_to_datetime(next_prayer_time, tomorrow) - t)),
                             TRUE)

\* The arguments.  The six times: in the order of the day; with Isha past
\* midnight; in reverse order; from midnight to the last minute of the day.
ClockTimes ==
  { TimesOfDay(0),
    PrayerTimes(<<6, 22>>, <<7, 48>>, <<13, 23>>, <<16, 19>>, <<18, 40>>, <<0, 30>>),
    PrayerTimes(<<20, 8>>, <<18, 40>>, <<16, 19>>, <<13, 23>>, <<7, 48>>, <<6, 22>>),
    PrayerTimes(<<0, 0>>, <<7, 48>>, <<13, 23>>, <<16, 19>>, <<18, 40>>, <<23, 59>>) }
ClockFajrs ==
  {NoneRec, Str(<<>>), Str(<<6, 21>>), Str(<<0, 0>>), Str(<<20, 8>>), Str(<<23, 0>>)}

\* The instants: each of the times of day above, a millisecond and 1001
\* milliseconds before it, a millisecond after it; midnight and the last
\* millisecond of the day
ClockOffsets == {-1001, -1, 0, 1}
ClockNows ==
  { t \in { (pt[name][1] * 60 + pt[name][2]) * 60 * 1000 + o :
              pt \in ClockTimes, name \in PrayerNameSet, o \in ClockOffsets } :
      0 <= t /\ t < DayMs }
  \cup {0, DayMs - 1}

InitClock ==
  /\ BundleAtRest
  /\ table = LocationsTable /\ procs = NoneRec
  /\ inp \in [prayer_times : ClockTimes, tomorrow_fajr : ClockFajrs, now : ClockNows]
  /\ out = NoneRec

GetCurrentPrayerInfo ==
  /\ out = NoneRec
  /\ out' = get_current_prayer_info(inp.prayer_times, inp.tomorrow_fajr, inp.now)
  /\ UNCHANGED <<bundleVars, table, procs, inp>>

NextClock == GetCurrentPrayerInfo

SpecClock == InitClock /\ [][NextClock]_vars

\* ------------------------------------------- the nearest-location search
\* The tables: up to MaxTable different entries, in any order, of a pool in
\* which two entries lie at one place and one entry is foreign; the query
\* points lie at an entry, between two and outside.
MaxTable == 3
NearestPool ==
  { Location("Istanbul", NameTuerkiye, CC_TR, 41000000, 32859700, "9541"),
    Location("Uskudar", NameTuerkiye, CC_TR, 41000000, 32859700, "9535"),
    Location("Koy", NameTuerkiye, CC_TR, 37000000, 32859700, None),
    Location("Nicosia", NameUSA, CC_US, 37000000, 32859700, None) }
NearestTables ==
  UNION { {t \in [1..n -> NearestPool] : \A i, j \in 1..n : i # j => t[i] # t[j]} :
          n \in 1..MaxTable }
NearestLats == {37000000, 39000000, 41000000, 43000000}

Found(kind, value) == [kind |-> kind, value |-> value]

InitNearest ==
  /\ BundleAtRest
  /\ table \in NearestTables
  /\ procs = NoneRec
  /\ inp \in [lat : NearestLats, lon : {32859700}, country_code : {CC_TR, CC_US, CC_XX},
              limit : 0..(MaxTable + 1)]
  /\ out = NoneRec

FindNearest ==
  /\ out = NoneRec
  /\ out' = Found("nearest", find_nearest_location(inp.lat, inp.lon))
  /\ UNCHANGED <<bundleVars, table, procs, inp>>

FindNearestByCountryCode ==
  /\ out = NoneRec
  /\ out' = Found("by_country_code",
                  find_nearest_location_by_country_code(inp.lat, inp.lon, inp.country_code))
  /\ UNCHANGED <<bundleVars, table, procs, inp>>

GetNearestLocations ==
  /\ out = NoneRec
  /\ out' = Found("ranked", get_nearest_locations(inp.lat, inp.lon, inp.limit))
  /\ UNCHANGED <<bundleVars, table, procs, inp>>

NextNearest ==
  \/ FindNearest
  \/ FindNearestByCountryCode
  \/ GetNearestLocations

SpecNearest == InitNearest /\ [][NextNearest]_vars

\* ------------------------------------- set_cached_bundle, run concurrently
\* MaxProcs processes run set_cached_bundle, each for its own location and
\* source.  A process reads the file into its local data (line 105), builds
\* its entry, and writes data back (line 117); the two steps are not atomic,
\* and nothing locks the file in between.
MaxProcs == 2
Procs == 1..MaxProcs

Proc(at, location, src, data, exc) ==
  [pc |-> at, loc |-> location, source |-> src, data |-> data, exc |-> exc]

\* The mapping a process writes back is the one it read.  The faulty variant
\* writes into the mapping the file holds at the time of the write.
WriteBase_current(q) == IF file.kind = "object" THEN file.data ELSE EmptyStore

WriteBase(q) == procs[q].data

InitRace ==
  /\ now = 0
  /\ file \in { CacheFile("missing", EmptyStore),
                CacheFile("object",
                  DictSet(EmptyStore, _cache_key(LocKoy, "mwl"),
                          NewEntry("mwl", TimesOfDay(0), TimesOfDay(1).Fajr, None, 0))) }
  /\ calls = 0
  /\ pc = "idle"
  /\ loc = LocIstanbul
  /\ source = "diyanet" /\ resolved = "diyanet"
  /\ requests = 0
  \* the bundle that every process stores
  /\ times = TimesOfDay(0) /\ tomorrow_fajr = TimesOfDay(1).Fajr /\ time_zone = None
  \* the reads and writes so far, in order
  /\ err = NoError /\ result = NoResult /\ trace = <<>> /\ keys = {}
  /\ op = NoOp /\ lastSet = NoSets
  /\ lookups = <<>> /\ table = LocationsTable
  /\ inp = NoneRec /\ out = NoneRec
  /\ procs \in [Procs -> {Proc("start", l, s, EmptyStore, None) :
                            l \in {LocIstanbul, LocNewYork}, s \in Sources}]

\* Line 105: data = _safe_read_cache()
RaceRead(q) ==
  /\ procs[q].pc = "start"
  /\ LET read == _safe_read_cache(file) IN
       procs' = [procs EXCEPT ![q] =
                   IF read.exc # None
                   THEN Proc("done", procs[q].loc, procs[q].source, EmptyStore, read.exc)
                   ELSE Proc("read", procs[q].loc, procs[q].source, read.value, None)]
  /\ trace' = Append(trace, <<"read", q, "ok">>)
  /\ UNCHANGED <<now, file, calls, pc, loc, source, resolved, requests, times,
                 tomorrow_fajr, time_zone, err, result, keys, op, lastSet,
                 lookups, table, inp, out>>

\* Lines 106-117: the entry goes into data, data goes to the file
RaceWrite(q) ==
  /\ procs[q].pc = "read"
  /\ \E io \in IoOutcomes :
       LET wrote == set_cached_bundle(CacheFile("object", WriteBase(q)), procs[q].loc,
                                      procs[q].source, times, tomorrow_fajr,
                                      time_zone, now, io)
       IN  /\ file' = IF io = "fail" THEN file ELSE wrote.value
           /\ procs' = [procs EXCEPT ![q].pc = "done", ![q].exc = wrote.exc]
           /\ trace' = Append(trace, <<"write", q, io>>)
  /\ UNCHANGED <<now, calls, pc, loc, source, resolved, requests, times,
                 tomorrow_fajr, time_zone, err, result, keys, op, lastSet,
                 lookups, table, inp, out>>

NextRace ==
  \/ \E q \in Procs : RaceRead(q)
  \/ \E q \in Procs : RaceWrite(q)

SpecRace == InitRace /\ [][NextRace]_vars

\* ===================================================== the properties
\* What the cache file holds, read off the file itself.
\* A stored value that the parser accepts: an object with the four required
\* fields whose times are an object with the six prayer names.
HasParseableEntry(f, key) ==
  /\ f.kind = "object"
  /\ key \in DOMAIN f.data
  /\ f.data[key].kind = "dict"
  /\ {"times", "tomorrow_fajr", "date", "fetched_at"} \subseteq f.data[key].has
  /\ f.data[key].times.kind = "dict"
  /\ PrayerNameSet \subseteq f.data[key].times.has

EntryTimes(e) ==
  PrayerTimes(e.times.Fajr, e.times.Sunrise, e.times.Dhuhr, e.times.Asr,
              e.times.Maghrib, e.times.Isha)
EntryZone(e) == IF "time_zone" \in e.has THEN e.time_zone ELSE None

\* The call's result is a return of the entry's times, tomorrow-Fajr and zone
ReturnsEntry(r, e) ==
  /\ r.kind = "return"
  /\ r.times = EntryTimes(e)
  /\ r.tomorrow_fajr = e.tomorrow_fajr
  /\ r.time_zone = EntryZone(e)

\* The calendar day of instant t in a bundle's zone: the zone recorded if it
\* names one, the system's otherwise
DayOfBundle(zone, t) ==
  IF zone \in ValidZones THEN DateIn(zone, t) ELSE DateIn(LOCAL_ZONE, t)


\* C1: when the fresh lookup has missed and the upstream fetch has raised a
\* fetch error (err holds it), the call ends by returning the times,
\* tomorrow-Fajr and zone of the parseable entry stored under the (location,
\* resolved source) key, whatever that entry's date, and if there is no such
\* entry by raising that same error; and a fetch error reaches the caller
\* only when no such entry is stored.
C1_StaleFallback ==
  LET key == _cache_key(loc, resolved) IN
  /\ (pc = "done" /\ err # NoError) =>
       /\ err.exc = "PrayerApiError"
       /\ trace[2] = "Miss"
       /\ IF HasParseableEntry(file, key)
          THEN ReturnsEntry(result, file.data[key])
          ELSE result = Raise(err)
  /\ (pc = "done" /\ result.kind = "raise" /\ result.error.exc = "PrayerApiError") =>
       /\ result.error = err
       /\ ~HasParseableEntry(file, key)

\* C1's case: an upstream fetch error was absorbed by an entry of another day
C1_Witness ==
  /\ pc = "done"
  /\ err # NoError
  /\ HasParseableEntry(file, _cache_key(loc, resolved))
  /\ file.data[_cache_key(loc, resolved)].date
       # _date_string_for_zone(EntryZone(file.data[_cache_key(loc, resolved)]),
                               resolved, now)
  /\ result.kind = "return"

\* C2: a call that begins while a fresh entry is stored under the (location,
\* resolved source) key ends at once, returning that entry's times,
\* tomorrow-Fajr and zone, having issued no HTTP request, whichever source
\* was requested and however earlier calls ended.
C2_FreshHitStep ==
  LET key == _cache_key(loc, resolved') IN
  (pc = "idle" /\ pc' # "idle"
     /\ HasParseableEntry(file, key)
     /\ file.data[key].date
          = _date_string_for_zone(EntryZone(file.data[key]), resolved', now))
  => /\ pc' = "done"
     /\ ReturnsEntry(result', file.data[key])
     /\ requests' = 0
     /\ file' = file

\* C2: every step of every call is such a step.
C2_FreshHit == [][C2_FreshHitStep]_vars

\* C2's case: a fresh hit for a requested source that was resolved to the
\* other one, on an entry whose zone is not the system's
C2_Witness ==
  /\ pc = "done"
  /\ trace = <<"CheckFresh", "FreshHit">>
  /\ source # resolved
  /\ result.kind = "return"
  /\ result.time_zone = NEW_YORK
  /\ requests = 0

\* The four paths of a call, by the steps taken
FourPaths ==
  { <<"CheckFresh", "FreshHit">>,
    <<"CheckFresh", "Miss", "FetchUpstream", "PersistAndReturn">>,
    <<"CheckFresh", "Miss", "FetchUpstream", "Failure", "CheckStale", "StaleHit">>,
    <<"CheckFresh", "Miss", "FetchUpstream", "Failure", "CheckStale", "StaleMiss">> }

\* C3 (as the claim states it): a call that is over has taken exactly one of
\* the four paths.
C3_FourPaths == pc = "done" => trace \in FourPaths


\* An entry stored at an instant of the calendar day, in its bundle's zone,
\* that instant t belongs to
WrittenSameDay(e, t) ==
  /\ e.fetched_at <= t
  /\ DayOfBundle(EntryZone(e), e.fetched_at) = DayOfBundle(EntryZone(e), t)

\* A call that ends by returning what it fetched leaves, under the (location,
\* resolved source) key, an entry holding what it returns
PersistedWhatItReturns ==
  (pc = "persist" /\ result'.kind = "return") =>
     /\ HasParseableEntry(file', _cache_key(loc, resolved))
     /\ ReturnsEntry(result', file'.data[_cache_key(loc, resolved)])

\* C4 (as the claim states it): ..., and a later call for the same location
\* on the entry's calendar day, whichever source it requests, is a fresh hit
\* on that entry.
C4_AnySourceStep ==
  /\ PersistedWhatItReturns
  /\ \A s \in Sources :
       LET key == _cache_key(loc, resolve_prayer_source(loc, s)) IN
       (pc = "idle" /\ pc' # "idle" /\ HasParseableEntry(file, key)
          /\ WrittenSameDay(file.data[key], now))
       => /\ pc' = "done"
          /\ ReturnsEntry(result', file.data[key])
          /\ requests' = 0

\* C4 (as the claim states it), over every step.
C4_AnySource == [][C4_AnySourceStep]_vars

\* C4 (amended): when the upstream fetch fully succeeds, the call returns
\* with the cache holding, under the (location, resolved source) key, an
\* entry equal to the returned result; and a later call for the same
\* location whose source resolves to the same source, on the same calendar
\* day in the bundle's zone and with the entry still in the file, is a fresh
\* hit that returns the entry's values and issues no HTTP request.
C4_SameResolvedStep ==
  /\ PersistedWhatItReturns
  /\ LET key == _cache_key(loc, resolved') IN
     (pc = "idle" /\ pc' # "idle" /\ HasParseableEntry(file, key)
        /\ WrittenSameDay(file.data[key], now))
     => /\ pc' = "done"
        /\ ReturnsEntry(result', file.data[key])
        /\ requests' = 0

\* C4 (amended), over every step.
C4_SameResolved == [][C4_SameResolvedStep]_vars

\* C4's case: a fresh hit at a later instant of the day on which the entry
\* was written
C4_Witness ==
  /\ pc = "done"
  /\ trace = <<"CheckFresh", "FreshHit">>
  /\ HasParseableEntry(file, _cache_key(loc, resolved))
  /\ file.data[_cache_key(loc, resolved)].fetched_at < now
  /\ ReturnsEntry(result, file.data[_cache_key(loc, resolved)])

\* C8: every cache key a call reads or writes is the key of the resolved
\* source: the requested source for a location eligible for the regional
\* provider, "mwl" for any other; so for a location that is not eligible the
\* calls requesting "diyanet" and the calls requesting "mwl" read and write
\* the same key.
C8_ResolvedKey ==
  /\ pc # "idle" =>
       /\ keys = {_cache_key(loc, resolved)}
       /\ resolved = (IF is_turkiye_location(loc) THEN source ELSE "mwl")
  /\ ~is_turkiye_location(loc) =>
       /\ _cache_key(loc, resolve_prayer_source(loc, "diyanet")) = _cache_key(loc, "mwl")
       /\ _cache_key(loc, resolve_prayer_source(loc, "mwl")) = _cache_key(loc, "mwl")
       /\ _cache_key(loc, "diyanet") # _cache_key(loc, "mwl")

\* C8's case: a call requesting "diyanet" for a location that is not
\* eligible is a fresh hit on the entry under the "mwl" key
C8_Witness ==
  /\ pc = "done"
  /\ ~is_turkiye_location(loc)
  /\ source = "diyanet"
  /\ trace = <<"CheckFresh", "FreshHit">>
  /\ keys = {_cache_key(loc, "mwl")}
  /\ ReturnsEntry(result, file.data[_cache_key(loc, "mwl")])


\* The read returned a bundle holding what set_cached_bundle last stored
\* under the key of source s
ReadsBack(s) ==
  /\ op.exc = None
  /\ op.value # NoneRec
  /\ op.value.times = lastSet[s].times
  /\ op.value.tomorrow_fajr = lastSet[s].tomorrow_fajr
  /\ op.value.time_zone = lastSet[s].time_zone

\* No zone's calendar day changes from instant t1 to instant t2
NoDayChange(t1, t2) ==
  \A z \in ValidZones \cup {LOCAL_ZONE} : DateIn(z, t1) = DateIn(z, t2)

\* C5: for every location, source, six times, tomorrow-Fajr and zone
\* argument (a zone name, None, the empty string, a name that is no zone),
\* get_fresh_cached_bundle for the (location, source) that set_cached_bundle
\* last stored, with the stored value untouched and no calendar day changed
\* since, returns a bundle with the six times, the tomorrow-Fajr and the
\* zone that were written.
C5_RoundTrip ==
  \A s \in Sources :
    (op.name = "get_fresh" /\ op.source = s /\ lastSet[s] # NoneRec
       /\ NoDayChange(lastSet[s].at, now))
    => ReadsBack(s)

\* C5's case: a bundle written with a name that is no zone is read back
\* fresh at a later instant of the day
C5_Witness ==
  /\ op.name = "get_fresh"
  /\ lastSet[op.source] # NoneRec
  /\ lastSet[op.source].time_zone = BAD_ZONE
  /\ lastSet[op.source].at < now
  /\ NoDayChange(lastSet[op.source].at, now)
  /\ ReadsBack(op.source)

\* The outcomes of an attempt after which another attempt may follow
Retryable == {"5xx", "transport"}

\* C6: one lookup issues at most 3 HTTP requests; every attempt but the last
\* ended in a 5xx response or a transport error, so a response with a status
\* below 500 ends the attempts and reading a malformed body issues no
\* request; a lookup that ends on a 5xx response or a transport error has
\* made 3 attempts and ends in a fetch failure, and one that ends on a 4xx
\* response ends in a fetch failure too.
C6_RetryPolicy ==
  /\ requests = Len(trace)
  /\ requests <= 3
  /\ \A i \in 1..(Len(trace) - 1) : trace[i] \in Retryable
  /\ pc = "attempt" =>
       /\ requests < 3
       /\ \A i \in 1..Len(trace) : trace[i] \in Retryable
  /\ pc = "fetched" => trace[Len(trace)] = "2xx"
  /\ (pc \in {"fetched", "failed"} /\ trace[Len(trace)] \in Retryable) =>
       /\ Len(trace) = 3
       /\ pc = "failed"
       /\ err.exc = "PrayerApiError"
  /\ (pc \in {"fetched", "failed"} /\ trace[Len(trace)] = "4xx") =>
       /\ pc = "failed"
       /\ err.exc = "PrayerApiError"

\* C6's case: the third attempt ended in a 5xx response after a 5xx response
\* and a transport error, and the lookup failed
C6_Witness ==
  /\ pc = "failed"
  /\ trace = <<"5xx", "transport", "5xx">>
  /\ requests = 3
  /\ err.exc = "PrayerApiError"

\* The country code is TR, whatever the case of its letters
CodeMatches(location) == str_upper(location.countryCode) = <<"T", "R">>

\* The country name, trimmed and in lower case, is one of the literals of
\* line 88 of prayer_api.py
NameMatches(location) == str_lower(str_strip(location.country)) \in NativeSpellings

\* C7 (as the claim states it): with a matching country code the resolved
\* source is the requested one, with any other country code it is "mwl".
C7_CodeDecides ==
  pc = "resolved" =>
    IF CodeMatches(loc) THEN resolved = source ELSE resolved = "mwl"

\* C7 (amended): with a matching country code, or with a country name that
\* is one of the native spellings, the resolved source is the requested one;
\* with a country code that does not match and a country name that is none
\* of the spellings it is "mwl", whichever source was requested.
C7_CodeOrNameDecides ==
  pc = "resolved" =>
    IF CodeMatches(loc) \/ NameMatches(loc) THEN resolved = source
    ELSE resolved = "mwl"

\* C7's case: "diyanet" was requested for a location whose code does not
\* match and whose name is no native spelling
C7_Witness ==
  /\ pc = "resolved"
  /\ ~CodeMatches(loc)
  /\ ~NameMatches(loc)
  /\ source = "diyanet"
  /\ resolved = "mwl"

\* The date rule as the claim words it: the entry's recorded zone; Istanbul
\* for an entry with no zone and source "diyanet"; otherwise the system's
\* date.  A recorded name that is no zone falls under "otherwise".
ClaimDate(tz, s, t) ==
  IF tz \in ValidZones THEN DateIn(tz, t)
  ELSE IF ~Truthy(tz) /\ s = "diyanet" THEN DateIn(DIYANET_TIME_ZONE, t)
  ELSE DateIn(LOCAL_ZONE, t)

\* The date rule amended: the entry's recorded zone if it names a zone;
\* otherwise (no zone recorded, or a name that is no zone) Istanbul for
\* source "diyanet" and the system's date for any other source.
AmendedDate(tz, s, t) ==
  IF tz \in ValidZones THEN DateIn(tz, t)
  ELSE IF s = "diyanet" THEN DateIn(DIYANET_TIME_ZONE, t)
  ELSE DateIn(LOCAL_ZONE, t)

\* A read of the entry last stored for source s, written on date D, on a day
\* whose date is today: fresh exactly on date D, stale at any date
DailyExpiry(s, D, today) ==
  /\ op.name = "get_fresh" =>
       IF D = today THEN ReadsBack(s) ELSE op.exc = None /\ op.value = NoneRec
  /\ op.name = "get_stale" => ReadsBack(s)

\* C9 (as the claim states it): expiry under the claim's date rule.
C9_ClaimRule ==
  \A s \in Sources :
    (op.name \in {"get_fresh", "get_stale"} /\ op.source = s /\ lastSet[s] # NoneRec)
    => DailyExpiry(s, ClaimDate(lastSet[s].time_zone, s, lastSet[s].at),
                   ClaimDate(lastSet[s].time_zone, s, now))

\* C9 (amended): an entry written by set_cached_bundle on date D, D taken
\* by the amended rule, is returned by get_fresh_cached_bundle at every
\* later instant whose date under that rule is D and at no instant whose
\* date under it differs, until the next write for its key;
\* get_stale_cached_bundle returns it at every instant.
C9_DailyExpiry ==
  \A s \in Sources :
    (op.name \in {"get_fresh", "get_stale"} /\ op.source = s /\ lastSet[s] # NoneRec)
    => DailyExpiry(s, AmendedDate(lastSet[s].time_zone, s, lastSet[s].at),
                   AmendedDate(lastSet[s].time_zone, s, now))

\* C9's case: an entry of source "diyanet" whose recorded name is no zone is
\* not returned as fresh once the Istanbul date has changed, though the
\* system's date is still that of the write
C9_Witness ==
  /\ op.name = "get_fresh"
  /\ op.source = "diyanet"
  /\ lastSet["diyanet"] # NoneRec
  /\ lastSet["diyanet"].time_zone = BAD_ZONE
  /\ DateIn(LOCAL_ZONE, lastSet["diyanet"].at) = DateIn(LOCAL_ZONE, now)
  /\ DateIn(DIYANET_TIME_ZONE, lastSet["diyanet"].at) # DateIn(DIYANET_TIME_ZONE, now)
  /\ op.exc = None
  /\ op.value = NoneRec

\* C10 (as the claim states it): whatever the cache file holds, the two
\* reads return and do not raise.
C10_ReadsNeverRaise ==
  op.name \in {"get_fresh", "get_stale"} => op.exc = None

\* C11 (as the claim states it): a call of fetch_prayer_bundle that ends by
\* raising raises the tagged fetch error PrayerApiError and no other
\* exception, whatever the upstream answered and however the cache write
\* went.
C11_OnlyFetchErrors ==
  (pc = "done" /\ result.kind = "raise") => result.error.exc = "PrayerApiError"

\* The last step of the call
LastOf(tr) == IF tr = <<>> THEN "" ELSE tr[Len(tr)]

\* C19: every result fetch_prayer_bundle returns carries the source argument
\* as requested_source and resolve_prayer_source(location, source) as
\* resolved_source; its zone is Europe/Istanbul after a regional upstream
\* fetch, the zone of the upstream response after a fallback upstream fetch,
\* and the zone of the cached entry after a fresh hit or a stale hit.
C19_ResultFields ==
  LET key == _cache_key(loc, resolve_prayer_source(loc, source)) IN
  (pc = "done" /\ result.kind = "return") =>
    /\ result.requested_source = source
    /\ result.resolved_source = resolve_prayer_source(loc, source)
    /\ LastOf(trace) \in {"FreshHit", "PersistAndReturn", "StaleHit"}
    /\ LastOf(trace) = "PersistAndReturn" =>
         IF result.resolved_source = "diyanet"
         THEN result.time_zone = DIYANET_TIME_ZONE
         ELSE result.time_zone = time_zone
    /\ LastOf(trace) \in {"FreshHit", "StaleHit"} =>
         /\ HasParseableEntry(file, key)
         /\ result.time_zone = EntryZone(file.data[key])

\* C19's case: a call that requested the regional source for a location
\* not eligible for it returned after a fallback upstream fetch, with the
\* zone of the response
C19_Witness ==
  /\ pc = "done"
  /\ result.kind = "return"
  /\ LastOf(trace) = "PersistAndReturn"
  /\ result.requested_source = "diyanet"
  /\ result.resolved_source = "mwl"
  /\ result.time_zone = NEW_YORK

\* The two lookups of a call for the resolved source res, in order
TodayOf(res) ==
  [provider |-> IF res = "diyanet" THEN "diyanet" ELSE "aladhan", day |-> "today"]
TomorrowOf(res) ==
  [provider |-> IF res = "diyanet" THEN "diyanet" ELSE "aladhan", day |-> "tomorrow"]

\* The lookups of a call that missed the fresh entry.  Leaving the try
\* block's first lookup (pc "tryFetch") the call has asked the provider of
\* its resolved source for today's times, and nothing else; a failure there
\* ends the lookups.  Leaving the second (pc "fetchTomorrow") it has asked
\* the same provider for tomorrow's Fajr as a second lookup.  No later step
\* of the call adds a lookup, and a call returns what it fetched only after
\* both.  With withoutLookup, a call may leave the first step having asked
\* nothing.
MissLookups(withoutLookup) ==
  /\ pc = "tryFetch" =>
       /\ lookups = <<>>
       /\ \/ lookups' = <<TodayOf(resolved)>>
          \/ withoutLookup /\ lookups' = <<>> /\ pc' = "checkStale"
  /\ (pc = "tryFetch" /\ pc' # "fetchTomorrow") => pc' \in {"checkStale", "done"}
  /\ pc = "fetchTomorrow" =>
       /\ lookups = <<TodayOf(resolved)>>
       /\ lookups' = <<TodayOf(resolved), TomorrowOf(resolved)>>
  /\ pc \in {"persist", "checkStale"} => lookups' = lookups
  /\ (pc = "persist" /\ result'.kind = "return") =>
       lookups = <<TodayOf(resolved), TomorrowOf(resolved)>>

\* The location carries no district id, and the table entry of the region
\* nearest to it (the first of the nearest ones) carries none either, or
\* the table has no entry of the region
NoDistrictId(location) ==
  LET region == {i \in DOMAIN table : table[i].countryCode = <<"T", "R">>}
      far(i) == Abs(table[i].lat - location.lat)
  IN  /\ location.diyanetIlceId = None
      /\ \A i \in region :
           table[i].diyanetIlceId # None =>
             \E j \in region :
               /\ table[j].diyanetIlceId = None
               /\ far(j) < far(i) \/ (far(j) = far(i) /\ j < i)

IsTimeOfDay(hhmm) == hhmm[1] \in 0..23 /\ hhmm[2] \in 0..59

\* C17 (as the claim states it): every result fetch_prayer_bundle returns,
\* on a fresh hit, after an upstream fetch or on a stale hit, holds six
\* times and a tomorrow-Fajr that are canonical 24-hour HH:MM strings.
C17_WellFormedTimes ==
  (pc = "done" /\ result.kind = "return") =>
    /\ \A name \in PrayerNameSet : IsTimeOfDay(result.times[name])
    /\ IsTimeOfDay(result.tomorrow_fajr)

\* The times of day that a string contains: every H:MM or HH:MM in it with
\* hours 0-23 and minutes 0-59
TimesOfDayIn(chars) ==
  LET digit(c) == c \in {"0", "1", "2", "3", "4", "5", "6", "7", "8", "9"}
      val(c) == CASE c = "0" -> 0 [] c = "1" -> 1 [] c = "2" -> 2 [] c = "3" -> 3
                  [] c = "4" -> 4 [] c = "5" -> 5 [] c = "6" -> 6 [] c = "7" -> 7
                  [] c = "8" -> 8 [] OTHER -> 9
      short == {<<val(chars[i]), 10 * val(chars[i + 2]) + val(chars[i + 3])>> :
                  i \in {j \in 1..(Len(chars) - 3) :
                           /\ digit(chars[j]) /\ chars[j + 1] = ":"
                           /\ digit(chars[j + 2]) /\ digit(chars[j + 3])}}
      long == {<<10 * val(chars[i]) + val(chars[i + 1]),
                 10 * val(chars[i + 3]) + val(chars[i + 4])>> :
                  i \in {j \in 1..(Len(chars) - 4) :
                           /\ digit(chars[j]) /\ digit(chars[j + 1]) /\ chars[j + 2] = ":"
                           /\ digit(chars[j + 3]) /\ digit(chars[j + 4])}}
  IN  {t \in short \cup long : IsTimeOfDay(t)}

\* hhmm is the zero-padded HH:MM spelling of the time t
Spells(hhmm, t) ==
  /\ Len(hhmm) = 5
  /\ hhmm[3] = ":"
  /\ \A i \in {1, 2, 4, 5} : hhmm[i] \in {"0", "1", "2", "3", "4", "5", "6", "7", "8", "9"}
  /\ TimesOfDayIn(hhmm) = {t}

\* C14 (as the claim states it): for a string that contains a time of day,
\* format_time_to_hhmm returns the zero-padded HH:MM of a time it contains
\* and _require_time_field returns the same; for a string that contains none
\* _require_time_field raises an error that names the field.
C14_Normalizes ==
  (out.kind = "normalized" /\ inp.value.kind = "str") =>
    IF TimesOfDayIn(inp.value.chars) # {}
    THEN /\ \E t \in TimesOfDayIn(inp.value.chars) : Spells(out.hhmm, t)
         /\ out.err = NoError
         /\ out.returned \in TimesOfDayIn(inp.value.chars)
    ELSE /\ out.err.exc = "PrayerApiError"
         /\ out.err.msg[2] = inp.key

\* The number a string of decimal digits spells; -1 if it is none
RECURSIVE Spelled(_)
Spelled(chars) ==
  LET last == chars[Len(chars)]
      val == CASE last = "0" -> 0 [] last = "1" -> 1 [] last = "2" -> 2
               [] last = "3" -> 3 [] last = "4" -> 4 [] last = "5" -> 5
               [] last = "6" -> 6 [] last = "7" -> 7 [] last = "8" -> 8
               [] last = "9" -> 9 [] OTHER -> -1
  IN  IF chars = <<>> \/ val = -1 THEN -1
      ELSE IF Len(chars) = 1 THEN val
      ELSE IF Spelled(SubSeq(chars, 1, Len(chars) - 1)) = -1 THEN -1
      ELSE 10 * Spelled(SubSeq(chars, 1, Len(chars) - 1)) + val

\* text is the zero-padded rendering H..H:MM:SS of h hours, m minutes and s
\* seconds: two digits each, more for the hours only when they need more
RendersClock(text, h, m, s) ==
  LET n == Len(text) IN
  /\ n >= 8
  /\ text[n - 2] = ":" /\ text[n - 5] = ":"
  /\ Spelled(SubSeq(text, n - 1, n)) = s
  /\ Spelled(SubSeq(text, n - 4, n - 3)) = m
  /\ Spelled(SubSeq(text, 1, n - 6)) = h
  /\ n > 8 => text[1] # "0"

\* C15: format_countdown gives "00:00:00" for every ms <= 0, and for every
\* ms > 0 the zero-padded HH:MM:SS of s = floor(ms / 1000) seconds: hours
\* floor(s / 3600), minutes floor((s mod 3600) / 60), seconds s mod 60.
C15_Countdown ==
  out.kind = "countdown" =>
    LET s == inp.ms \div 1000 IN
    IF inp.ms <= 0 THEN out.text = <<"0", "0", ":", "0", "0", ":", "0", "0">>
    ELSE RendersClock(out.text, s \div 3600, (s % 3600) \div 60, s % 60)

\* C15's case: 3,661,000 ms gives "01:01:01"
C15_Witness ==
  /\ inp = [ms |-> 3661000]
  /\ out = [kind |-> "countdown", text |-> <<"0", "1", ":", "0", "1", ":", "0", "1">>]

\* The instant of the time of day hhmm on day d, in milliseconds
StampOf(hhmm, d) == d * (24 * 60 * 60 * 1000) + (hhmm[1] * 60 + hhmm[2]) * 60 * 1000

\* C12: when now is at or after today's Isha (at it exactly, too),
\* get_current_prayer_info gives Isha as the current prayer, Fajr as the
\* next, is_after_isha true, the supplied tomorrow-Fajr as next_prayer_time
\* if there is one and today's Fajr string if not, and a countdown that runs
\* to that time of day on the next calendar day (to the millisecond, or one
\* less).
C12_AfterIsha ==
  (out.kind = "info" /\ inp.now >= StampOf(inp.prayer_times.Isha, 0)) =>
    /\ out.current_prayer = "Isha"
    /\ out.next_prayer = "Fajr"
    /\ out.is_after_isha
    /\ out.next_prayer_time =
         IF inp.tomorrow_fajr \notin {NoneRec, Str(<<>>)}
         THEN inp.tomorrow_fajr.hhmm ELSE inp.prayer_times.Fajr
    /\ out.time_until_next_ms \in
         {StampOf(out.next_prayer_time, 1) - inp.now - 1,
          StampOf(out.next_prayer_time, 1) - inp.now}

\* C12's case: now is exactly 20:08, the Isha of the day, and a tomorrow-Fajr
\* of 06:21 was supplied: the countdown runs to 06:21 of the next day
C12_Witness ==
  /\ out.kind = "info"
  /\ inp.prayer_times = TimesOfDay(0)
  /\ inp.now = StampOf(<<20, 8>>, 0)
  /\ inp.tomorrow_fajr = Str(<<6, 21>>)
  /\ out.is_after_isha
  /\ out.next_prayer_time = <<6, 21>>
  /\ out.time_until_next_ms = StampOf(<<6, 21>>, 1) - StampOf(<<20, 8>>, 0)

\* C13 (as the claim states it): whatever the six times, the tomorrow-Fajr
\* and now, time_until_next_ms is not negative and is exactly the difference
\* in milliseconds of the next prayer's timestamp and now (0 if that were
\* negative).
C13_ExactCountdown ==
  out.kind = "info" =>
    LET next == StampOf(out.next_prayer_time, IF out.is_after_isha THEN 1 ELSE 0)
    IN  /\ out.time_until_next_ms >= 0
        /\ out.time_until_next_ms = IF next - inp.now > 0 THEN next - inp.now ELSE 0

\* The distance of table entry i from the query point (one meridian)
Far(i) == IF table[i].lat >= inp.lat THEN table[i].lat - inp.lat
          ELSE inp.lat - table[i].lat

\* Entry e is, among the table entries with index in candidates, one of
\* minimal distance, and the earliest of those in table order
FirstNearest(e, candidates) ==
  \E i \in candidates :
    /\ table[i] = e
    /\ \A j \in candidates : Far(i) < Far(j) \/ (Far(i) = Far(j) /\ i <= j)

\* C16: find_nearest_location and find_nearest_location_by_country_code
\* return, among their candidates (all entries; the entries of the country
\* code), an entry of minimal distance and the earliest such in table order;
\* get_nearest_locations lists entries by non-decreasing distance, entries of
\* equal distance in table order, so that its first element is what
\* find_nearest_location returns.
C16_Nearest ==
  LET all == DOMAIN table
      ofCode == {i \in DOMAIN table : table[i].countryCode = inp.country_code}
      at(e) == CHOOSE i \in DOMAIN table : table[i] = e
  IN  /\ out.kind = "nearest" => FirstNearest(out.value, all)
      /\ (out.kind = "by_country_code" /\ ofCode # {}) => FirstNearest(out.value, ofCode)
      /\ out.kind = "ranked" =>
           /\ \A k \in DOMAIN out.value : \E i \in all : table[i] = out.value[k]
           /\ \A k, l \in DOMAIN out.value :
                k < l => \/ Far(at(out.value[k])) < Far(at(out.value[l]))
                         \/ /\ Far(at(out.value[k])) = Far(at(out.value[l]))
                            /\ at(out.value[k]) < at(out.value[l])
           /\ out.value # <<>> => FirstNearest(out.value[1], all)

\* C16's case: two entries of the table are equally near and nearest, and
\* the listing of the two nearest has them in table order
C16_Witness ==
  /\ out.kind = "ranked"
  /\ Len(out.value) = 2
  /\ \E i, j \in DOMAIN table :
       /\ i < j
       /\ Far(i) = Far(j)
       /\ table[i].lat # table[j].lat
       /\ \A k \in DOMAIN table : Far(i) <= Far(k)
       /\ out.value = <<table[i], table[j]>>

\* The last step taken
LastStep == trace[Len(trace)]

\* C18: set_cached_bundle replaces the whole file by the mapping it read
\* earlier plus its own entry, with no lock from the read to the write: after
\* a write the store holds the keys the writer had read and the writer's
\* key, and no key written by another process since that read.  So when two
\* processes for two different keys both read and then both write, only the
\* entry of the second writer is in the store.
C18_WholeFileWrite ==
  (trace # <<>> /\ LastStep[1] = "write" /\ LastStep[3] = "ok") =>
    LET q == LastStep[2] IN
    /\ file.kind = "object"
    /\ DOMAIN file.data =
         DOMAIN procs[q].data \cup {_cache_key(procs[q].loc, procs[q].source)}
    /\ \A key \in DOMAIN procs[q].data :
         key # _cache_key(procs[q].loc, procs[q].source)
           => file.data[key] = procs[q].data[key]

\* C18's case: both processes read, then both wrote, each its own key, and
\* the entry of the first writer is not in the store
C18_Witness ==
  /\ trace = << <<"read", 1, "ok">>, <<"read", 2, "ok">>,
                <<"write", 1, "ok">>, <<"write", 2, "ok">> >>
  /\ _cache_key(procs[1].loc, procs[1].source) # _cache_key(procs[2].loc, procs[2].source)
  /\ procs[1].exc = None /\ procs[2].exc = None
  /\ file.kind = "object"
  /\ _cache_key(procs[2].loc, procs[2].source) \in DOMAIN file.data
  /\ _cache_key(procs[1].loc, procs[1].source) \notin DOMAIN file.data

\* The entry stored under key is one a fresh lookup at instant t returns
IsFreshAt(f, key, res, t) ==
  /\ HasParseableEntry(f, key)
  /\ f.data[key].date = _date_string_for_zone(EntryZone(f.data[key]), res, t)

\* The steps of a call so far hold no failed lookup
NoFailure == \A i \in DOMAIN trace : trace[i] # "Failure"

\* C21: within a call the cache file changes in one step only, the cache
\* write that follows two successful lookups (today's times, then
\* tomorrow's Fajr), and that step ends the call; so a call that ends in a
\* fresh hit, in a stale return or in the re-raised fetch error, the one
\* whose second lookup failed included, has left the file as it was, and
\* after a stale return the entry is still not fresh.
C21_WriteStep ==
  /\ (pc # "idle" /\ file' # file) =>
       /\ pc = "persist"
       /\ pc' = "done"
       /\ NoFailure
       /\ err = NoError
       /\ lookups = <<TodayOf(resolved), TomorrowOf(resolved)>>
  /\ (pc # "idle" /\ pc' = "done"
        /\ LastOf(trace') \in {"FreshHit", "StaleHit", "StaleMiss"}) =>
       file' = file
  /\ (pc # "idle" /\ pc' = "done" /\ LastOf(trace') = "StaleHit") =>
       ~IsFreshAt(file', _cache_key(loc, resolved), resolved, now)

StoredKeys(f) == IF f.kind = "object" THEN DOMAIN f.data ELSE {}

\* C22: a set_cached_bundle that returns, made by the only writer, leaves a
\* file that is a store holding every entry the file held under another
\* key, unchanged, and no key the file did not hold but its own; under its
\* own key it holds an entry with the six times, the tomorrow-Fajr and the
\* zone given, the date of the write (in the zone given if it names one,
\* in Istanbul for source "diyanet" otherwise, else the system's) and the
\* instant of the write.
C22_SetStep ==
  (op'.name = "set" /\ op'.exc = None /\ calls' = calls + 1) =>
    LET s == op'.source
        key == _cache_key(loc, s)
        given == lastSet'[s]
    IN  /\ file'.kind = "object"
        /\ StoredKeys(file') = StoredKeys(file) \cup {key}
        /\ \A other \in StoredKeys(file) \ {key} :
             file'.data[other] = file.data[other]
        /\ file'.data[key].kind = "dict"
        /\ file'.data[key].has = EntryFields
        /\ file'.data[key].times.kind = "dict"
        /\ file'.data[key].times.has = PrayerNameSet
        /\ \A i \in DOMAIN PRAYER_NAMES :
             file'.data[key].times[PRAYER_NAMES[i]] = given.times[PRAYER_NAMES[i]]
        /\ file'.data[key].tomorrow_fajr = given.tomorrow_fajr
        /\ file'.data[key].time_zone = given.time_zone
        /\ file'.data[key].date = AmendedDate(given.time_zone, s, now)
        /\ file'.data[key].fetched_at = now

\* C22: every set_cached_bundle is such a step.
C22_OnlyItsKey == [][C22_SetStep]_vars

\* C22's case: a write for one source has left in the file the entry
\* written earlier for the other source
C22_Witness ==
  /\ op.name = "set"
  /\ op.exc = None
  /\ file.kind = "object"
  /\ \E s \in Sources \ {op.source} :
       /\ _cache_key(loc, s) \in DOMAIN file.data
       /\ file.data[_cache_key(loc, s)].kind = "dict"
       /\ file.data[_cache_key(loc, s)].fetched_at < now
  /\ file.data[_cache_key(loc, op.source)].fetched_at = now

\* A stored value is the string of a time of day
IsTimeString(value) == Len(value) = 2 /\ IsTimeOfDay(value)

\* The value stored under a key has a missing or malformed field: it is no
\* object, or lacks times, tomorrow_fajr, date or fetched_at, or its times
\* are no object, or one of the six times is missing or no time string, or
\* its tomorrow_fajr is no time string
Malformed(e) ==
  \/ e.kind # "dict"
  \/ ~({"times", "tomorrow_fajr", "date", "fetched_at"} \subseteq e.has)
  \/ e.times.kind # "dict"
  \/ ~(PrayerNameSet \subseteq e.times.has)
  \/ \E i \in DOMAIN PRAYER_NAMES : ~IsTimeString(e.times[PRAYER_NAMES[i]])
  \/ ~IsTimeString(e.tomorrow_fajr)

\* C23 (as the claim states it): get_fresh_cached_bundle and
\* get_stale_cached_bundle return absent for a key whose stored value has a
\* missing or malformed field.
C23_MalformedIsAbsent ==
  (/\ op.name \in {"get_fresh", "get_stale"}
   /\ op.exc = None
   /\ file.kind = "object"
   /\ _cache_key(loc, op.source) \in DOMAIN file.data
   /\ Malformed(file.data[_cache_key(loc, op.source)]))
  => op.value = NoneRec

\* C24: a call that missed the fresh entry, for a location whose resolved
\* source is "diyanet" and for which no district id is found, has sent no
\* HTTP request and asked no provider anything; its failure is the fetch
\* error "Failed to resolve Diyanet location", and the call ends by
\* returning the parseable entry stored under its key if there is one, and
\* by raising that fetch error if there is none.
C24_Unresolvable ==
  LET key == _cache_key(loc, resolved) IN
  (/\ pc \in {"checkStale", "done"}
   /\ Len(trace) >= 2 /\ trace[2] = "Miss"
   /\ resolved = "diyanet"
   /\ NoDistrictId(loc))
  => /\ requests = 0
     /\ lookups = <<>>
     /\ err = PrayerApiError("Failed to resolve Diyanet location")
     /\ pc = "done" =>
          IF HasParseableEntry(file, key)
          THEN LastOf(trace) = "StaleHit" /\ ReturnsEntry(result, file.data[key])
          ELSE LastOf(trace) = "StaleMiss" /\ result = Raise(err)

\* C24's case: the call of such a location ended by returning the entry
\* of the day before
C24_Witness ==
  /\ pc = "done"
  /\ resolved = "diyanet"
  /\ NoDistrictId(loc)
  /\ trace = <<"CheckFresh", "Miss", "FetchUpstream", "Failure", "CheckStale", "StaleHit">>
  /\ requests = 0
  /\ result.kind = "return"
  /\ result.times = TimesOfDay(0 - 1)

\* ------------------------------------- the regional lookups' day matching
\* The two regional lookups on their own, given a 200 response whose body is
\* a list of up to MaxList entries, at any instant.  The k-th date text is
\* carried by an entry that holds the times of day k, so that the times a
\* lookup returns tell which entry it used.
MaxList == 2
DateTexts ==
  << DateText(0),                                                  \* 30.11.2026
     DateText(1),                                                  \* 01.12.2026
     <<"1", ".", "1", "2", ".", "2", "0", "2", "6">>,              \* 1.12.2026
     DateText(0 - 1),                                              \* 29.11.2026
     <<"2", "0", "2", "6", "-", "1", "1", "-", "3", "0">>,         \* 2026-11-30
     <<>>,                                                         \* no date key
     <<"1", "2", ".", "0", "1", ".", "2", "0", "2", "6">>,         \* 12.01.2026
     DateText(0) \o <<" ">> \o DateText(1),              \* 30.11.2026 01.12.2026
     <<"0", "0", ".", "1", "2", ".", "2", "0", "2", "6">> >>       \* 00.12.2026

ListEntry(k) == [kind |-> "dict", date |-> DateTexts[k], raw |-> RawDay(k - 1, "str")]
ListEntries ==
  {ListEntry(k) : k \in DOMAIN DateTexts}
    \cup {[kind |-> "number", date |-> <<>>, raw |-> RawDay(0, "str")]}
ScheduleLists == UNION {[1..n -> ListEntries] : n \in 0..MaxList}

Looked(day, got) == [kind |-> "looked", day |-> day, got |-> got]

InitDayMatch ==
  /\ BundleAtRest
  /\ table = LocationsTable
  /\ procs = NoneRec
  /\ inp \in [data : ScheduleLists, now : 0..MaxTime]
  /\ out = NoneRec

FindToday ==
  /\ out = NoneRec
  /\ out' = Looked("today",
                   _fetch_prayer_times_from_diyanet("return", "2xx",
                                                    DiyanetBody("list", inp.data), inp.now))
  /\ UNCHANGED <<bundleVars, table, procs, inp>>

FindTomorrow ==
  /\ out = NoneRec
  /\ out' = Looked("tomorrow",
                   _fetch_tomorrow_fajr_from_diyanet("return", "2xx",
                                                     DiyanetBody("list", inp.data), inp.now))
  /\ UNCHANGED <<bundleVars, table, procs, inp>>

NextDayMatch ==
  \/ FindToday
  \/ FindTomorrow

SpecDayMatch == InitDayMatch /\ [][NextDayMatch]_vars

\* The date texts whose first three integers, read as day, month and year,
\* are the date of day d (day 0 is 30 November 2026)
TextsOfDay(d) ==
  IF d = 0 - 1 THEN {4} ELSE IF d = 0 THEN {1, 8} ELSE IF d = 1 THEN {2, 3} ELSE {}

\* The positions of the list whose entry carries a date text of day d
EntriesOfDay(d) ==
  {i \in DOMAIN inp.data :
     /\ inp.data[i].kind = "dict"
     /\ \E k \in TextsOfDay(d) : inp.data[i] = ListEntry(k)}

\* The day in Istanbul, one tick ahead of the system's clock, at instant t
IstanbulDay(t) == (t + 1) \div DayLen

\* C25: a lookup of today's times that returns has returned the six times
\* of an entry whose date is today's in Istanbul, and a lookup of
\* tomorrow's Fajr the Fajr of an entry whose date is tomorrow's there; when
\* the list holds objects only and none with that date, the lookup raises
\* the fetch error "Could not find today's (tomorrow's) prayer times".
C25_DayMatch ==
  out # NoneRec =>
    LET day == IF out.day = "today" THEN IstanbulDay(inp.now)
               ELSE IstanbulDay(inp.now) + 1
        all_objects == \A i \in DOMAIN inp.data : inp.data[i].kind = "dict"
    IN  /\ out.got.err = NoError =>
             \E i \in EntriesOfDay(day) :
               IF out.day = "today"
               THEN \A j \in DOMAIN PRAYER_NAMES :
                      out.got.times[PRAYER_NAMES[j]]
                        = inp.data[i].raw[PRAYER_NAMES[j]].hhmm
               ELSE out.got.tomorrow_fajr = inp.data[i].raw.Fajr.hhmm
        /\ (all_objects /\ EntriesOfDay(day) = {}) =>
             out.got.err =
               IF out.day = "today"
               THEN PrayerApiError("Could not find today's prayer times")
               ELSE PrayerApiError("Could not find tomorrow's prayer times")

\* C25's case: the list holds the entries of yesterday and of today, and
\* the lookup of tomorrow's Fajr has failed for want of tomorrow's entry
C25_Witness ==
  /\ out # NoneRec
  /\ out.day = "tomorrow"
  /\ inp.now = MaxTime - 1
  /\ inp.data = <<ListEntry(1), ListEntry(2)>>
  /\ out.got.err = PrayerApiError("Could not find tomorrow's prayer times")

\* The prayers whose time of day now has reached, and of them those with
\* the latest time
ReachedNames == {n \in PrayerNameSet : StampOf(inp.prayer_times[n], 0) <= inp.now}
LatestReached ==
  {n \in ReachedNames :
     \A m \in ReachedNames :
       StampOf(inp.prayer_times[m], 0) <= StampOf(inp.prayer_times[n], 0)}

\* The prayer after prayer n in the order of PRAYER_NAMES
Successor(n) ==
  PRAYER_NAMES[(CHOOSE i \in DOMAIN PRAYER_NAMES : PRAYER_NAMES[i] = n) + 1]

\* C26 (as the claim states it): whatever the six times, when now is at or
\* after today's Fajr the current prayer is the one with the latest time
\* that now has reached, and when that is not Isha the next prayer is its
\* successor in the order of the day, next_prayer_time is the successor's
\* time, and is_after_isha is false.
C26_LatestReached ==
  (out.kind = "info" /\ inp.now >= StampOf(inp.prayer_times.Fajr, 0)) =>
    /\ out.current_prayer \in LatestReached
    /\ out.current_prayer # "Isha" =>
         /\ out.next_prayer = Successor(out.current_prayer)
         /\ out.next_prayer_time = inp.prayer_times[Successor(out.current_prayer)]
         /\ ~out.is_after_isha

\* C27 (as the claim states it): when now is before today's Fajr and before
\* every other time of today, the current prayer is Isha, the next is Fajr,
\* next_prayer_time is today's Fajr whatever tomorrow-Fajr was supplied,
\* is_after_isha is false, and the countdown is today's Fajr minus now, to
\* the millisecond.
C27_BeforeFajr ==
  (/\ out.kind = "info"
   /\ \A n \in PrayerNameSet : inp.now < StampOf(inp.prayer_times[n], 0))
  => /\ out.current_prayer = "Isha"
     /\ out.next_prayer = "Fajr"
     /\ out.next_prayer_time = inp.prayer_times.Fajr
     /\ ~out.is_after_isha
     /\ out.time_until_next_ms = StampOf(inp.prayer_times.Fajr, 0) - inp.now

\* The country's name in its own language, with and without the umlaut, in
\* lower case
KnownSpellings ==
  {<<"t", "u:", "r", "k", "i", "y", "e">>, <<"t", "u", "r", "k", "i", "y", "e">>}

\* The location is one of the region: by its country code, whatever the
\* case, or by its country name, trimmed and in lower case
Eligible(location) ==
  \/ CodeMatches(location)
  \/ str_lower(str_strip(location.country)) \in KnownSpellings

\* C28 (as the claim states it): is_turkiye_location is true of exactly the
\* locations whose country code is TR in any case or whose country name,
\* trimmed and in lower case, is a native spelling of the country's name;
\* resolve_prayer_source returns the requested source for these and "mwl"
\* for all others.
C28_Eligibility ==
  pc = "resolved" =>
    /\ is_turkiye_location(loc) <=> Eligible(loc)
    /\ resolved = IF Eligible(loc) THEN source ELSE "mwl"

\* C29 (as the claim states it): the entry a call has stored with date D,
\* a date of the bundle's zone, holds the upstream times of day D (those
\* that differ from day to day: Sunrise, Maghrib, Isha) and as
\* tomorrow-Fajr the upstream dawn of day D + 1, also when midnight passes
\* between the two lookups and the write.
C29_DayConsistent ==
  LET key == _cache_key(loc, resolved) IN
  (/\ pc = "done"
   /\ LastOf(trace) = "PersistAndReturn"
   /\ file.data[key].time_zone \in ValidZones) =>
    LET D == file.data[key].date IN
    /\ file.data[key].times.Sunrise = TimesOfDay(D).Sunrise
    /\ file.data[key].times.Maghrib = TimesOfDay(D).Maghrib
    /\ file.data[key].times.Isha = TimesOfDay(D).Isha
    /\ file.data[key].tomorrow_fajr \in {TimesOfDay(D + 1).Fajr, OutOfRange}

\* ------------------------------------------- the live countdown (cli.py)
\* next_command holds one bundle and asks get_current_prayer_info again and
\* again while the clock runs, here from the Isha of day 0 into the morning
\* of day 1, a quarter of an hour at a time; the loop fetches a new bundle
\* only when a countdown is within a second of its end, and that ends the
\* run with this bundle.
LiveStep == 15 * 60 * 1000
MaxLive == 48
LiveBundles ==
  { [prayer_times |-> TimesOfDay(d), tomorrow_fajr |-> f] :
      d \in {0, 1},
      f \in {NoneRec, Str(TimesOfDay(0).Fajr), Str(TimesOfDay(1).Fajr),
             Str(TimesOfDay(2).Fajr)} }

IshaOf(bundle) ==
  (bundle.prayer_times.Isha[1] * 60 + bundle.prayer_times.Isha[2]) * 60 * 1000

InitLive ==
  /\ BundleAtRest
  /\ table = LocationsTable
  /\ procs = NoneRec
  /\ \E b \in LiveBundles :
       /\ inp = [prayer_times |-> b.prayer_times, tomorrow_fajr |-> b.tomorrow_fajr,
                 now |-> IshaOf(b)]
       /\ out = get_current_prayer_info(b.prayer_times, b.tomorrow_fajr, IshaOf(b))

LiveTick ==
  /\ out.time_until_next_ms > 1000
  /\ inp.now + LiveStep <= IshaOf(inp) + MaxLive * LiveStep
  /\ inp' = [inp EXCEPT !.now = @ + LiveStep]
  /\ out' = get_current_prayer_info(inp.prayer_times, inp.tomorrow_fajr, inp'.now)
  /\ UNCHANGED <<bundleVars, table, procs>>

NextLive == LiveTick

SpecLive == InitLive /\ [][NextLive]_vars

\* C30 (as the claim states it): with a tomorrow-Fajr supplied, from the
\* Isha of the day until the Fajr that follows, one look of the live
\* countdown and the next give the same next_prayer_time and count down to
\* the same instant, also when midnight lies between them.
C30_StableStep ==
  (/\ inp.tomorrow_fajr # NoneRec
   /\ inp'.now > inp.now
   /\ inp.now >= StampOf(inp.prayer_times.Isha, 0)
   /\ inp'.now < StampOf(inp.tomorrow_fajr.hhmm, 1)
   /\ inp'.now < StampOf(inp.prayer_times.Fajr, 1))
  => /\ out'.next_prayer_time = out.next_prayer_time
     /\ inp'.now + out'.time_until_next_ms = inp.now + out.time_until_next_ms

\* C30: every look of the countdown is such a step.
C30_StableTarget == [][C30_StableStep]_vars

\* The minute of the day of a time string
MinuteOf(hhmm) == hhmm[1] * 60 + hhmm[2]

\* The six times are strictly increasing in the order of PRAYER_NAMES
StrictlyIncreasing(prayer_times) ==
  \A i \in 1..(Len(PRAYER_NAMES) - 1) :
    MinuteOf(prayer_times[PRAYER_NAMES[i]]) < MinuteOf(prayer_times[PRAYER_NAMES[i + 1]])

\* A tomorrow-Fajr was supplied: a string that is not empty
Supplied(fajr) == fajr # NoneRec /\ fajr.hhmm # <<>>

\* C31: for six strictly increasing times and a tomorrow-Fajr that is not
\* supplied or is a time of day not later than today's Isha,
\* time_until_next_ms is at most 86,400,000 at every instant of the day.
C31_CountdownBound ==
  (/\ out.kind = "info"
   /\ StrictlyIncreasing(inp.prayer_times)
   /\ Supplied(inp.tomorrow_fajr) =>
        MinuteOf(inp.tomorrow_fajr.hhmm) <= MinuteOf(inp.prayer_times.Isha))
  => out.time_until_next_ms <= 86400000

\* C31's case: at the instant of Isha with a tomorrow-Fajr at Isha's time of
\* day the countdown is 24 hours to the millisecond
C31_Witness ==
  /\ out.kind = "info"
  /\ StrictlyIncreasing(inp.prayer_times)
  /\ Supplied(inp.tomorrow_fajr)
  /\ inp.tomorrow_fajr.hhmm = inp.prayer_times.Isha
  /\ inp.now = StampOf(inp.prayer_times.Isha, 0)
  /\ out.is_after_isha
  /\ out.time_until_next_ms = 86400000

\* ---------------------------------------------------------------------
\* SpecDay: one fixed bundle, read again and again by get_current_prayer_info
\* while the clock of its zone (get_time_zone_now) advances through one
\* calendar day.
\* The clock moves from one instant of interest to the next: each full hour,
\* each prayer's timestamp, the millisecond before and the millisecond after
\* it, and the last millisecond of the day.

DayBundles ==
  { [prayer_times |-> pt, tomorrow_fajr |-> f] :
      pt \in {TimesOfDay(0), TimesOfDay(1),
              PrayerTimes(<<0, 0>>, <<7, 48>>, <<13, 23>>, <<16, 19>>, <<18, 40>>, <<23, 59>>)},
      f \in {NoneRec, Str(<<>>), Str(<<6, 21>>), Str(<<6, 23>>)} }

DayInstants(prayer_times) ==
  { t \in { StampOf(prayer_times[n], 0) + o : n \in PrayerNameSet, o \in {-1, 0, 1} } :
      0 <= t /\ t < DayMs }
  \cup { h * 60 * 60 * 1000 : h \in 0..23 } \cup {DayMs - 1}

InitDay ==
  /\ BundleAtRest
  /\ table = LocationsTable
  /\ procs = NoneRec
  /\ \E b \in DayBundles :
       /\ inp = [prayer_times |-> b.prayer_times, tomorrow_fajr |-> b.tomorrow_fajr, now |-> 0]
       /\ out = get_current_prayer_info(b.prayer_times, b.tomorrow_fajr, 0)

AdvanceClock ==
  /\ \E t \in DayInstants(inp.prayer_times) :
       /\ t > inp.now
       /\ \A u \in DayInstants(inp.prayer_times) : u > inp.now => t <= u
       /\ inp' = [inp EXCEPT !.now = t]
  /\ out' = get_current_prayer_info(inp.prayer_times, inp.tomorrow_fajr, inp'.now)
  /\ UNCHANGED <<bundleVars, table, procs>>

NextDay == AdvanceClock

SpecDay == InitDay /\ [][NextDay]_vars

\* The names in the cycle Fajr, Sunrise, ..., Isha, Fajr
CyclicSuccessor(n) == IF n = "Isha" THEN "Fajr" ELSE Successor(n)

\* The prayers whose timestamp of today lies in (from, to]
ReachedBetween(from, to) ==
  {n \in PrayerNameSet :
     from < StampOf(inp.prayer_times[n], 0) /\ StampOf(inp.prayer_times[n], 0) <= to}

C32_DayStart ==
  (inp.now = 0 /\ StampOf(inp.prayer_times.Fajr, 0) > 0)
  => (out.next_prayer = "Fajr" /\ ~out.is_after_isha)

C32_DayEnd ==
  inp.now = DayMs - 1 => (out.next_prayer = "Fajr" /\ out.is_after_isha)

C32_Predecessor == CyclicSuccessor(out.current_prayer) = out.next_prayer

C32_Step ==
  inp'.now > inp.now =>
    /\ out'.next_prayer \in {out.next_prayer, CyclicSuccessor(out.next_prayer)}
    /\ (out'.next_prayer # out.next_prayer) <=> (ReachedBetween(inp.now, inp'.now) # {})
    /\ out'.is_after_isha <=> (out.is_after_isha \/ "Isha" \in ReachedBetween(inp.now, inp'.now))

\* C32: for a fixed bundle with six strictly increasing times, as now
\* advances through one calendar day the reported next prayer starts at Fajr,
\* moves only to the cyclic successor of its value, moves exactly at the steps
\* in which now reaches a prayer's timestamp, and ends the day at tomorrow's
\* Fajr (after Isha); the reported current prayer is always the cyclic
\* predecessor of the reported next prayer.
C32_Progression ==
  /\ [](C32_DayStart /\ C32_DayEnd /\ C32_Predecessor)
  /\ [][C32_Step]_vars

\* C32's case: the clock has gone through the day up to the instant of Isha,
\* where the next prayer turns to tomorrow's Fajr
C32_Witness ==
  /\ StrictlyIncreasing(inp.prayer_times)
  /\ inp.now = StampOf(inp.prayer_times.Isha, 0)
  /\ out.current_prayer = "Isha"
  /\ out.next_prayer = "Fajr"
  /\ out.is_after_isha

\* ---------------------------------------------------------------------
\* SpecWork: calls of fetch_prayer_bundle at one instant, against a cache
\* file that is missing or holds yesterday's bundle of the location, under
\* every sequence of upstream outcomes.  A call that has started goes on: the
\* interpreter runs its next statement, an HTTP attempt ends within its
\* timeout (timeout=20.0, line 66) and the sleeps between attempts are finite
\* (lines 70, 76).
InitWork ==
  /\ now = 0
  /\ loc \in Locations
  /\ file \in {CacheFile("missing", EmptyStore)} \cup {StoredBefore(loc, s) : s \in Sources}
  /\ calls = 0
  /\ pc = "idle"
  /\ source = "diyanet" /\ resolved = "diyanet"
  /\ requests = 0
  /\ times = NoTimes /\ tomorrow_fajr = NoTime /\ time_zone = None
  /\ err = NoError /\ result = NoResult /\ trace = <<>> /\ keys = {}
  /\ op = NoOp /\ lastSet = NoSets
  /\ lookups = <<>> /\ table = LocationsTable
  /\ inp = NoneRec /\ out = NoneRec /\ procs = NoneRec

CallStep == LookupToday \/ LookupTomorrow \/ Persist \/ StaleLookup

NextWork ==
  \/ StartCall
  \/ LookupToday
  \/ LookupTomorrow
  \/ Persist
  \/ StaleLookup
  \/ Return

SpecWork == InitWork /\ [][NextWork]_vars /\ WF_vars(CallStep)

\* A call is running
InCall == pc \in {"tryFetch", "fetchTomorrow", "persist", "checkStale"}

\* The call is over, with a result or an error for its caller
CallOver == pc = "done" /\ result # NoResult

C33_RequestBound ==
  /\ requests <= 6
  /\ Len(lookups) <= 2
  /\ requests <= 3 * Len(lookups)
  /\ (Len(lookups) = 1 /\ pc \in {"checkStale", "done"}) => requests <= 3
  /\ (pc = "done" /\ trace = <<"CheckFresh", "FreshHit">>) => requests = 0

\* C33: every call of fetch_prayer_bundle ends with a result or an error;
\* it issues at most 6 HTTP requests (2 lookups of at most 3 attempts), at
\* most 3 when the first lookup fails, and none on a fresh hit.
C33_BoundedWork ==
  /\ []C33_RequestBound
  /\ [](pc = "done" => result # NoResult)
  /\ (InCall ~> CallOver)

\* C33's cases: a call that ended after 6 requests; the formula's bounds are
\* attained
C33_Witness ==
  /\ CallOver
  /\ requests = 6
  /\ Len(lookups) = 2

\* ---------------------------------------------------------------------
\* SpecDistrict: the configured location keeps its city, country code and
\* coordinates while its district id is replaced between calls
\* (config --diyanet-ilce-id, cli.py 364-365), and the regional provider
\* answers a lookup with the schedule of the district in the URL
\* (DIYANET_BASE_URL/{ilce_id}, prayer_api.py 139).
DistrictIds == {"9541", "9206"}

\* The schedule the regional provider holds for a district on day d: the
\* second district's times differ from the first's
DistrictDay(ilce_id, d) == IF ilce_id = "9541" THEN d ELSE d + 1
DistrictTimes(ilce_id, d) == TimesOfDay(DistrictDay(ilce_id, d))

DistrictEntry(ilce_id, d) ==
  [kind |-> "dict", date |-> DateText(d), raw |-> RawDay(DistrictDay(ilce_id, d), "str")]

\* The bodies of the provider of `resolved` for the location of the call
DistrictBodiesNow(offset) ==
  IF Provider(resolved) = "diyanet"
  THEN LET d == DateIn(DIYANET_TIME_ZONE, now)
           ilce_id == get_diyanet_ilce_id(loc)
       IN  { DiyanetBody("list", <<DistrictEntry(ilce_id, d), DistrictEntry(ilce_id, d + 1)>>),
             DiyanetBody("list", <<>>) }
  ELSE AladhanBodies(DateIn(ZoneOfLocation(loc), now + offset), ZoneOfLocation(loc))

InitDistrict ==
  /\ now = 0
  /\ file = CacheFile("missing", EmptyStore)
  /\ calls = 0
  /\ pc = "idle"
  /\ loc = LocIstanbul
  /\ source = "diyanet" /\ resolved = "diyanet"
  /\ requests = 0
  /\ times = NoTimes /\ tomorrow_fajr = NoTime /\ time_zone = None
  /\ err = NoError /\ result = NoResult /\ trace = <<>> /\ keys = {}
  /\ op = NoOp /\ lastSet = NoSets
  /\ lookups = <<>> /\ table = LocationsTable
  /\ inp = NoneRec /\ out = NoneRec /\ procs = NoneRec

\* cli.py 364-365: config.location.diyanetIlceId = diyanet_ilce_id
ChangeDistrict ==
  /\ pc = "idle"
  /\ calls < MaxCalls
  /\ \E ilce_id \in DistrictIds \ {loc.diyanetIlceId} :
       loc' = [loc EXCEPT !.diyanetIlceId = ilce_id]
  /\ UNCHANGED <<now, file, calls, pc, source, resolved, requests, times,
                 tomorrow_fajr, time_zone, err, result, trace, keys, op, lastSet>>
  /\ UNCHANGED <<lookups, table, inp, out, procs>>

\* Lines 275-281, 298: today's lookup, for the district of the location
LookupTodayOfDistrict ==
  /\ pc = "tryFetch"
  /\ IF resolved = "diyanet" /\ ~Truthy(get_diyanet_ilce_id(loc))
     THEN /\ err' = PrayerApiError("Failed to resolve Diyanet location")
          /\ trace' = trace \o <<"FetchUpstream", "Failure">>
          /\ pc' = "checkStale"
          /\ UNCHANGED <<requests, times, time_zone, result, lookups>>
     ELSE \E run \in RetryRuns : \E body \in BodiesFor(run, DistrictBodiesNow(0)) :
            LET got == IF Provider(resolved) = "diyanet"
                       THEN _fetch_prayer_times_from_diyanet(run.decision, run.o, body, now)
                       ELSE _fetch_prayer_times_from_aladhan(run.decision, run.o, body)
            IN  /\ requests' = requests + run.n
                /\ lookups' = Append(lookups, LookupMade(Provider(resolved), "today"))
                /\ IF got.err = NoError
                   THEN /\ times' = got.times
                        /\ time_zone' = got.time_zone
                        /\ trace' = Append(trace, "FetchUpstream")
                        /\ pc' = "fetchTomorrow"
                        /\ UNCHANGED <<err, result>>
                   ELSE /\ trace' = trace \o <<"FetchUpstream", "Failure">>
                        /\ IF got.err.exc = "PrayerApiError"
                           THEN /\ err' = got.err
                                /\ result' = result
                                /\ pc' = "checkStale"
                           ELSE /\ err' = err
                                /\ result' = Raise(got.err)
                                /\ pc' = "done"
                        /\ UNCHANGED <<times, time_zone>>
  /\ UNCHANGED <<now, file, calls, loc, source, resolved, tomorrow_fajr, keys, op, lastSet>>
  /\ UNCHANGED <<table, inp, out, procs>>

\* Lines 282, 299: the lookup of tomorrow's Fajr, for the district of the
\* location
LookupTomorrowOfDistrict ==
  /\ pc = "fetchTomorrow"
  /\ \E run \in RetryRuns : \E body \in BodiesFor(run, DistrictBodiesNow(DayLen)) :
       LET got == IF Provider(resolved) = "diyanet"
                  THEN _fetch_tomorrow_fajr_from_diyanet(run.decision, run.o, body, now)
                  ELSE _fetch_tomorrow_fajr_from_aladhan(run.decision, run.o, body)
       IN  /\ requests' = requests + run.n
           /\ lookups' = Append(lookups, LookupMade(Provider(resolved), "tomorrow"))
           /\ IF got.err = NoError
              THEN /\ tomorrow_fajr' = got.tomorrow_fajr
                   /\ pc' = "persist"
                   /\ UNCHANGED <<err, result, trace>>
              ELSE /\ LookupFailed(got.err)
                   /\ UNCHANGED tomorrow_fajr
  /\ UNCHANGED <<now, file, calls, loc, source, resolved, times, time_zone, keys, op, lastSet>>
  /\ UNCHANGED <<table, inp, out, procs>>

NextDistrict ==
  \/ Tick
  \/ ChangeDistrict
  \/ StartCall
  \/ LookupTodayOfDistrict
  \/ LookupTomorrowOfDistrict
  \/ Persist
  \/ StaleLookup
  \/ Return

SpecDistrict == InitDistrict /\ [][NextDistrict]_vars

\* C35: a fresh cache hit for a location resolved to the regional provider
\* returns the times the provider holds, for the day of the call, for the
\* district id the location resolves to at the call.
C35_FreshForDistrict ==
  (/\ pc = "done"
   /\ trace = <<"CheckFresh", "FreshHit">>
   /\ resolved = "diyanet")
  => result.times = DistrictTimes(get_diyanet_ilce_id(loc), DateIn(DIYANET_TIME_ZONE, now))

\* ---------------------------------------------------------------------
\* SpecNotify: run_notify_daemon (notify.py 46-89) for the location Istanbul
\* and the source "diyanet".  now is the wall clock of Europe/Istanbul in
\* milliseconds; the cache file is the one of cache.py, read and written at
\* the tick that begins the calendar day of now.  trace is what the running
\* iteration has notified, keys the prayer occurrences (name, calendar day)
\* notified since the daemon started, calls the iterations that failed.
MaxDays == 3            \* the daemon's clock stops after this many days
MaxFails == 3           \* failed iterations in one behaviour

\* The tick of the cache operations at the wall-clock instant t
TickOf(t) == (t \div DayMs) * DayLen

\* What fetch_prayer_bundle gives at instant t (prayer_api.py 260-324): the
\* fresh entry; else, the provider answering (up), the schedule of the day
\* and the dawn of the next, written to the cache; else the stale entry; else
\* the error.  An error of the cache write leaves the call.
FetchBundle(f, t, up, io) ==
  LET fresh == get_fresh_cached_bundle(f, LocIstanbul, "diyanet", TickOf(t))
      day == DateIn(DIYANET_TIME_ZONE, TickOf(t))
      wrote == set_cached_bundle(f, LocIstanbul, "diyanet", TimesOfDay(day),
                                 TimesOfDay(day + 1).Fajr, DIYANET_TIME_ZONE, TickOf(t), io)
      stale == get_stale_cached_bundle(f, LocIstanbul, "diyanet")
  IN  IF fresh.exc # None THEN [exc |-> fresh.exc, bundle |-> NoneRec, file |-> f]
      ELSE IF fresh.value # NoneRec THEN [exc |-> None, bundle |-> fresh.value, file |-> f]
      ELSE IF up
      THEN (IF wrote.exc # None
            THEN [exc |-> wrote.exc, bundle |-> NoneRec, file |-> wrote.value]
            ELSE [exc |-> None,
                  bundle |-> CachedPrayerBundle(TimesOfDay(day), TimesOfDay(day + 1).Fajr,
                                                DIYANET_TIME_ZONE, day, TickOf(t)),
                  file |-> wrote.value])
      ELSE IF stale.exc # None THEN [exc |-> stale.exc, bundle |-> NoneRec, file |-> f]
      ELSE IF stale.value # NoneRec THEN [exc |-> None, bundle |-> stale.value, file |-> f]
      ELSE [exc |-> "PrayerApiError", bundle |-> NoneRec, file |-> f]

\* The time the fetch and the clock computation take, in milliseconds
FetchDelays == {0, 400}

\* The instants at which the daemon is started
StartNows == {0, 12 * 60 * 60 * 1000}

\* The prayer occurrence an info computed at instant t targets
Occurrence(info, t) ==
  <<info.next_prayer, (t \div DayMs) + (IF info.is_after_isha THEN 1 ELSE 0)>>

InitNotify ==
  /\ now \in StartNows
  /\ file = CacheFile("missing", EmptyStore)
  /\ calls = 0
  /\ pc = "loop"
  /\ loc = LocIstanbul
  /\ source = "diyanet" /\ resolved = "diyanet"
  /\ requests = 0
  /\ times = NoTimes /\ tomorrow_fajr = NoTime /\ time_zone = None
  /\ err = NoError /\ result = NoResult /\ trace = <<>> /\ keys = {}
  /\ op = NoOp /\ lastSet = NoSets
  /\ lookups = <<>> /\ table = LocationsTable
  /\ inp = NoneRec /\ out = NoneRec /\ procs = NoneRec

\* Lines 55-73: the fetch and the clock computation; on an exception the
\* sleep of 60 seconds and the next pass of the loop.
DaemonFetch ==
  /\ pc = "loop"
  /\ now < MaxDays * DayMs
  /\ \E up \in BOOLEAN, io \in IoOutcomes, delay \in FetchDelays :
       LET got == FetchBundle(file, now, up, io) IN
       /\ file' = got.file
       /\ IF got.exc # None
          THEN /\ calls < MaxFails
               /\ calls' = calls + 1
               /\ now' = now + delay + 60 * 1000
               /\ out' = NoneRec
               /\ pc' = "loop"
          ELSE /\ calls' = calls
               /\ now' = now + delay
               /\ out' = get_current_prayer_info(got.bundle.times,
                                                 Str(got.bundle.tomorrow_fajr), now + delay)
               /\ pc' = "wait"
  /\ trace' = <<>>
  /\ UNCHANGED <<loc, source, resolved, requests, times, tomorrow_fajr,
                 time_zone, err, result, keys, op, lastSet>>
  /\ UNCHANGED <<lookups, table, inp, procs>>

\* Line 75
wait_seconds(info) == Max(1, info.time_until_next_ms \div 1000)

\* Lines 75-86: the sleep until the target, then the notification.
DaemonNotify ==
  /\ pc = "wait"
  /\ now' = now + wait_seconds(out) * 1000
  /\ trace' = Append(trace, [prayer |-> out.next_prayer, time |-> out.next_prayer_time])
  /\ keys' = keys \cup {Occurrence(out, now)}
  /\ pc' = "pause"
  /\ UNCHANGED <<file, calls, loc, source, resolved, requests, times, tomorrow_fajr,
                 time_zone, err, result, op, lastSet>>
  /\ UNCHANGED <<lookups, table, inp, out, procs>>

\* Line 89: time.sleep(2), then the next pass of the loop.
DaemonPause ==
  /\ pc = "pause"
  /\ now' = now + 2 * 1000
  /\ pc' = "loop"
  /\ UNCHANGED <<file, calls, loc, source, resolved, requests, times, tomorrow_fajr,
                 time_zone, err, result, trace, keys, op, lastSet>>
  /\ UNCHANGED <<lookups, table, inp, out, procs>>

NextNotify ==
  \/ DaemonFetch
  \/ DaemonNotify
  \/ DaemonPause

SpecNotify == InitNotify /\ [][NextNotify]_vars

\* A failed iteration notifies nothing and comes back to the loop after at
\* least 60 seconds
C34_FailedStep ==
  (pc = "loop" /\ pc' = "loop" /\ now' # now)
  => (keys' = keys /\ trace' = <<>> /\ now' - now >= 60 * 1000)

\* A successful iteration notifies once, the prayer computed before the
\* sleep, after max(1, floor(time_until_next_ms / 1000)) seconds
C34_NotifyStep ==
  (pc = "wait" /\ pc' # "wait")
  => /\ pc' = "pause"
     /\ trace' = <<[prayer |-> out.next_prayer, time |-> out.next_prayer_time]>>
     /\ now' - now =
          (IF out.time_until_next_ms >= 1000 THEN out.time_until_next_ms \div 1000 ELSE 1) * 1000
     /\ keys' \subseteq keys \cup {Occurrence(out, now)}

\* No prayer occurrence is notified twice, and an iteration never targets an
\* occurrence that was notified
C34_OnceStep ==
  /\ (pc = "wait" /\ pc' = "pause") => Occurrence(out, now) \notin keys
  /\ (pc = "loop" /\ pc' = "wait") => Occurrence(out', now') \notin keys

C34_PauseStep == (pc = "pause" /\ pc' # "pause") => (pc' = "loop" /\ now' - now = 2 * 1000)

\* C34: run_notify_daemon notifies at most once per prayer occurrence; a
\* failed iteration notifies nothing and is retried after 60 seconds; a
\* successful iteration notifies exactly once, the next prayer computed before
\* the sleep, after max(1, floor(time_until_next_ms / 1000)) seconds; the
\* iteration after the 2-second pause never targets that occurrence again.
C34_Daemon ==
  [][C34_FailedStep /\ C34_NotifyStep /\ C34_PauseStep /\ C34_OnceStep]_vars

====
